---------------------------- MODULE Spec2Model ----------------------------
(***************************************************************************)
(* Timer / session state machine of Home/.config/waybar/timer-manager.py.  *)
(*                                                                         *)
(* Every command-line invocation builds a TimerManager (which loads the    *)
(* JSON files), runs one method and exits; the variables below are the     *)
(* contents of those files, and an action is one whole invocation.  Where  *)
(* invocations overlap, an invocation is two steps, its load and its       *)
(* method, and mem holds what the invocations in flight have loaded.       *)
(*                                                                         *)
(* Units.  The wall clock `now` counts ticks of SecondsPerTick seconds.    *)
(* Values the code keeps in minutes are held as integers:                  *)
(*   planned_duration  in 1/60 minute  (duration_seconds / 60),            *)
(*   actual_duration   in 1/10 minute  (round(elapsed / 60, 1)),           *)
(*   focus_time        in minutes      (round(elapsed / 60)).              *)
(* The state file itself is assumed writable (save_state succeeding);      *)
(* faults of the analytics, achievements and daily-stats files are inputs  *)
(* of the actions that touch them.                                         *)
(***************************************************************************)
EXTENDS Integers, Sequences, FiniteSets, TLC

VARIABLES
    now,           \* time.time(), in ticks
    state,         \* timer-manager.json
    analytics,     \* productivity/analytics.json
    achievements,  \* productivity/achievements.json
    daily_stats,   \* productivity/daily_stats.json
    alarm_state,   \* alarm-state.json
    out,           \* history: what the last invocation did (notifications, result)
    hist,          \* history: completion effects since the timer was last started
    mem,           \* the objects of the invocations in flight: what each has loaded
    disk,          \* a state file as a loader finds it (readable or not, its keys)
    pomodoro,      \* waybar-pomodoro.py: its state file, its settings, the workspace
    prayer         \* prayertimes.py: its cache file, its notification state, the API

vars == <<now, state, analytics, achievements, daily_stats, alarm_state, out, hist, mem,
          disk, pomodoro, prayer>>

\* what the timer manager never touches
elsewhere == <<disk, pomodoro, prayer>>

\* a module that has not run yet has left no file
NoFile == [ exists |-> FALSE ]

ElsewhereInit ==
    /\ disk = NoFile
    /\ pomodoro = NoFile
    /\ prayer = NoFile

-----------------------------------------------------------------------------
(* Bounds of the model *)

MaxTime == 3
MaxDuration == 2
SecondsPerTick == 20
InitAlarmAt == 2
MaxDays == 2
MaxAlarms == 2
MaxPoints == 1000
MaxCalls == 2
MaxCrashes == 2
MaxMinutes == 17
MaxReminders == 5

(* Program constants *)

FocusBonus == 10
LevelStep == 100
DaySeconds == 86400
GoalPoints == 20
HabitPoints == 5
GuruLevel == 10

Durations == 1..MaxDuration
TimerTypes == {"general", "focus", "break"}
Faults == {"none", "analytics_read", "analytics_write", "achievements", "daily_stats"}
NoSession == 0

\* the values str(uuid.uuid4())[:8] is drawn from; the analytics log holds at
\* most one record per id
SessionIds == {1, 2}

\* the ids the timer specification draws from: its log holds one record
TimerSessionIds == {1}

-----------------------------------------------------------------------------
(* Pure helpers *)

\* Python's round() on an exact quotient n/d (d > 0): nearest, ties to even.
RoundHalfEven(n, d) ==
    LET q == n \div d
        r == n % d
    IN  IF 2 * r < d THEN q
        ELSE IF 2 * r > d THEN q + 1
        ELSE IF q % 2 = 0 THEN q ELSE q + 1

\* round(elapsed / 60, 1), in tenths of a minute; elapsed in ticks.
ActualDuration(elapsed) == RoundHalfEven(elapsed * SecondsPerTick * 10, 60)

\* round(elapsed / 60), in minutes; elapsed in ticks.
ElapsedMinutes(elapsed) == RoundHalfEven(elapsed * SecondsPerTick, 60)

\* duration_minutes / 60 of create_session_record, in 1/60 minute.
PlannedDuration(duration) == duration * SecondsPerTick

\* (points // 100) + 1
LevelOf(points) == (points \div LevelStep) + 1

\* timedelta(days=1), in ticks
Day == DaySeconds \div SecondsPerTick

\* the local time zone, one hour east of UTC: a fixed offset, with no
\* daylight-saving change during the run
UtcOffset == Day \div 24

\* datetime.now() when time.time() = t
LocalTime(t) == t + UtcOffset

\* datetime.timestamp() of a naive local datetime
Timestamp(dt) == dt - UtcOffset

IdleState ==
    [ mode |-> "idle", start_time |-> 0, duration |-> 0, paused |-> FALSE,
      pause_start |-> 0, total_pause_time |-> 0, timer_name |-> "Timer",
      timer_type |-> "general", session_id |-> NoSession ]

\* get_current_time: elapsed time of state st read at clock t
GetCurrentTime(st, t) ==
    IF st.paused
    THEN st.pause_start - st.start_time - st.total_pause_time
    ELSE t - st.start_time - st.total_pause_time

Elapsed == GetCurrentTime(state, now)

\* remaining of get_timer_status
Remaining(st, t) ==
    LET d == st.duration - GetCurrentTime(st, t) IN IF d > 0 THEN d ELSE 0


-----------------------------------------------------------------------------
(* Session records: analytics.json *)

NoTime == 0 - 1

TimerName(timer_type) ==
    CASE timer_type = "focus" -> "Focus Session"
      [] timer_type = "break" -> "Break"
      [] OTHER -> "Timer"

NoAnalytics == [ exists |-> FALSE, focus_sessions |-> <<>>, break_sessions |-> <<>> ]

AllSessions(an) == an.focus_sessions \o an.break_sessions

\* str(uuid.uuid4())[:8]: the ids no stored record carries
FreshSessionIds(an) ==
    { id \in SessionIds : \A i \in 1..Len(AllSessions(an)) : AllSessions(an)[i].id # id }

\* the dict create_session_record appends
NewSession(sid, duration, name, session_type, t) ==
    [ id |-> sid, name |-> name, type |-> session_type,
      planned_duration |-> PlannedDuration(duration), start_time |-> t,
      completed |-> FALSE, interrupted |-> FALSE, actual_duration |-> 0,
      end_time |-> NoTime ]

\* create_session_record: the analytics file afterwards. Any exception while
\* reading or writing it is swallowed and leaves the file as it was.
CreateSessionRecord(an, sid, duration, name, session_type, t, fault) ==
    IF (fault = "analytics_read" /\ an.exists) \/ fault = "analytics_write"
    THEN an
    ELSE IF session_type = "focus"
         THEN [an EXCEPT !.exists = TRUE,
                         !.focus_sessions = Append(@, NewSession(sid, duration, name, session_type, t))]
         ELSE [an EXCEPT !.exists = TRUE,
                         !.break_sessions = Append(@, NewSession(sid, duration, name, session_type, t))]

CreateSessionNotes(an, fault) ==
    IF (fault = "analytics_read" /\ an.exists) \/ fault = "analytics_write"
    THEN <<"note:session_error">> ELSE <<>>

\* (variant) FirstMatch taking the first record whatever its id
FirstMatch_AnyId(list, sid) ==
    IF Len(list) > 0 THEN 1 ELSE 0

\* index of the first record of list with this id, 0 when there is none
FirstMatch(list, sid) ==
    IF \E i \in 1..Len(list) : list[i].id = sid
    THEN CHOOSE i \in 1..Len(list) :
            /\ list[i].id = sid
            /\ \A j \in 1..(i - 1) : list[j].id # sid
    ELSE 0

\* MarkSession taking the wall-clock time since the start as the elapsed time
MarkSession_WallClock(session, completed, interrupted, st, t) ==
    LET marked == [session EXCEPT !.completed = completed,
                                  !.interrupted = interrupted,
                                  !.end_time = t]
    IN  IF st.timer_type \in {"focus", "break"}
        THEN [marked EXCEPT !.actual_duration = ActualDuration(t - st.start_time)]
        ELSE marked

\* the fields update_session_record sets on the matching record
MarkSession(session, completed, interrupted, st, t) ==
    LET marked == [session EXCEPT !.completed = completed,
                                  !.interrupted = interrupted,
                                  !.end_time = t]
    IN  IF st.timer_type \in {"focus", "break"}
        THEN [marked EXCEPT !.actual_duration = ActualDuration(GetCurrentTime(st, t))]
        ELSE marked

\* the inner loop of update_session_record over one list
MarkList(list, sid, completed, interrupted, st, t) ==
    LET i == FirstMatch(list, sid)
    IN  IF i = 0 THEN list
        ELSE [list EXCEPT ![i] = MarkSession(list[i], completed, interrupted, st, t)]

\* AwardsIn with the interruption test inverted
AwardsIn_Interrupted(list, sid, completed, interrupted) ==
    LET i == FirstMatch(list, sid)
    IN  i # 0 /\ list[i].type = "focus" /\ interrupted

\* AwardsIn without the completion test
AwardsIn_Always(list, sid, completed, interrupted) ==
    LET i == FirstMatch(list, sid)
    IN  i # 0 /\ list[i].type = "focus"

\* whether the inner loop over this list calls award_productivity_points
AwardsIn(list, sid, completed, interrupted) ==
    LET i == FirstMatch(list, sid)
    IN  i # 0 /\ list[i].type = "focus" /\ completed /\ ~interrupted

\* number of award_productivity_points calls of one update_session_record
AwardCalls(an, sid, completed, interrupted) ==
    (IF AwardsIn(an.focus_sessions, sid, completed, interrupted) THEN 1 ELSE 0)
  + (IF AwardsIn(an.break_sessions, sid, completed, interrupted) THEN 1 ELSE 0)

-----------------------------------------------------------------------------
(* Achievement bridge: achievements.json, daily_stats.json *)

\* award_productivity_points, achievements part (n calls of `points` each)
AwardAchievements(ach, points, n, fault) ==
    IF ach.exists /\ fault # "achievements"
    THEN [ach EXCEPT !.points = @ + n * points,
                     !.level = LevelOf(ach.points + n * points)]
    ELSE ach

\* award_productivity_points, daily-stats part; skipped when the achievements
\* part raised
AwardDailyStats(ds, ach, st, t, n, fault) ==
    IF /\ ds.exists
       /\ ~(ach.exists /\ fault = "achievements")
       /\ fault # "daily_stats"
       /\ st.timer_type = "focus"
    THEN [ds EXCEPT !.focus_time = @ + n * ElapsedMinutes(GetCurrentTime(st, t))]
    ELSE ds

\* update_session_record: what it leaves in the three stores, and its notifications
UpdateSessionRecord(sid, completed, interrupted, st, t, an, ach, ds, fault) ==
    LET skip == sid = NoSession \/ ~an.exists
        readFails == fault = "analytics_read"
        n == AwardCalls(an, sid, completed, interrupted)
        marked == [an EXCEPT
                     !.focus_sessions = MarkList(@, sid, completed, interrupted, st, t),
                     !.break_sessions = MarkList(@, sid, completed, interrupted, st, t)]
    IN  IF skip
        THEN [ analytics |-> an, achievements |-> ach, daily_stats |-> ds,
               notes |-> <<>>, awards |-> 0 ]
        ELSE IF readFails
        THEN [ analytics |-> an, achievements |-> ach, daily_stats |-> ds,
               notes |-> <<"note:session_error">>, awards |-> 0 ]
        ELSE [ analytics |-> IF fault = "analytics_write" THEN an ELSE marked,
               achievements |-> AwardAchievements(ach, FocusBonus, n, fault),
               daily_stats |-> AwardDailyStats(ds, ach, st, t, n, fault),
               notes |-> IF fault = "analytics_write"
                         THEN <<"note:session_error">> ELSE <<>>,
               awards |-> IF ach.exists /\ fault # "achievements" THEN n ELSE 0 ]

-----------------------------------------------------------------------------
(* Alarms: alarm-state.json.  next_alarm is a sequence of at most one alarm. *)

NewAlarm(dt, name) ==
    [ time |-> dt, name |-> name, enabled |-> TRUE, timestamp |-> Timestamp(dt) ]

\* list.sort(key=timestamp): stable insertion of alarm a into sorted list
RECURSIVE InsertSorted(_, _)
InsertSorted(a, list) ==
    IF list = <<>> THEN <<a>>
    ELSE IF Head(list).timestamp <= a.timestamp
         THEN <<Head(list)>> \o InsertSorted(a, Tail(list))
         ELSE <<a>> \o list

RECURSIVE SortAlarms(_)
SortAlarms(list) ==
    IF list = <<>> THEN <<>>
    ELSE InsertSorted(list[Len(list)], SortAlarms(SubSeq(list, 1, Len(list) - 1)))

\* update_next_alarm: the new value of next_alarm
NextAlarm(alarms, t) ==
    LET future == { i \in 1..Len(alarms) : alarms[i].enabled /\ alarms[i].timestamp > t }
    IN  IF future = {} THEN <<>>
        ELSE LET i == CHOOSE i \in future :
                        \A j \in future :
                            \/ alarms[i].timestamp < alarms[j].timestamp
                            \/ (alarms[i].timestamp = alarms[j].timestamp /\ i <= j)
             IN  <<alarms[i]>>

Triggered(alarm, t) == alarm.enabled /\ alarm.timestamp <= t

\* (variant) the rescheduling counted from the time of the check
Reschedule_FromNow(alarm) ==
    [alarm EXCEPT !.time = LocalTime(now) + Day, !.timestamp = now + Day]

\* the rescheduling of one triggered alarm
Reschedule(alarm) ==
    [alarm EXCEPT !.time = alarm.time + Day, !.timestamp = Timestamp(alarm.time + Day)]

\* check_alarms: the alarm file afterwards
CheckAlarms(as, t) ==
    IF \E i \in 1..Len(as.alarms) : Triggered(as.alarms[i], t)
    THEN LET moved == [ i \in 1..Len(as.alarms) |->
                          IF Triggered(as.alarms[i], t)
                          THEN Reschedule(as.alarms[i]) ELSE as.alarms[i] ]
             sorted == SortAlarms(moved)
         IN  [as EXCEPT !.alarms = sorted, !.next_alarm = NextAlarm(sorted, t)]
    ELSE as

\* trigger_alarm, once per triggered alarm in list order
RECURSIVE AlarmNotes(_, _)
AlarmNotes(alarms, t) ==
    IF alarms = <<>> THEN <<>>
    ELSE (IF Triggered(Head(alarms), t)
          THEN <<"sound:alarm", "note:alarm", "popup:alarm">> ELSE <<>>)
         \o AlarmNotes(Tail(alarms), t)

\* alarm_time.split(':') with int() tried on each part: a part is either the
\* integer it spells or text that int() rejects
Part(n) == [ int |-> TRUE, val |-> n ]
NotAnInt == [ int |-> FALSE, val |-> 0 ]

\* hour, minute = map(int, ...) and now.replace(hour=, minute=): ValueError
\* unless there are exactly two parts, both integers, in 0..23 and 0..59
ParseTime(input) ==
    IF /\ Len(input) = 2
       /\ input[1].int /\ input[2].int
       /\ input[1].val \in 0..23
       /\ input[2].val \in 0..59
    THEN [ ok |-> TRUE, hour |-> input[1].val, minute |-> input[2].val ]
    ELSE [ ok |-> FALSE, hour |-> 0, minute |-> 0 ]

\* the offset of HH:MM:00 from midnight, in ticks
TimeOfDay(hour, minute) == ((hour * 60 + minute) * 60) \div SecondsPerTick

\* now.replace(hour, minute, second=0, microsecond=0) at local time ldt
AtTimeToday(hour, minute, ldt) == (ldt - (ldt % Day)) + TimeOfDay(hour, minute)

\* (variant) tomorrow only if strictly passed
AlarmDatetime_TodayIfEqual(hour, minute, t) ==
    LET at == AtTimeToday(hour, minute, LocalTime(t))
    IN  IF at < LocalTime(t) THEN at + Day ELSE at

\* alarm_datetime of add_alarm: today at HH:MM, or tomorrow if that has passed
AlarmDatetime(hour, minute, t) ==
    LET at == AtTimeToday(hour, minute, LocalTime(t))
    IN  IF at <= LocalTime(t) THEN at + Day ELSE at

\* (variant) append without the sort
Appended_Unsorted(alarms, a) == Append(alarms, a)

\* alarms.append(alarm_data); alarms.sort(key=timestamp)
Appended(alarms, a) == SortAlarms(Append(alarms, a))

\* (variant) add_alarm mutating the list before the input is checked
AddedAlarm_KeepsBadInput(as, input, name, t) ==
    LET p == ParseTime(input)
        list == Appended(as.alarms, NewAlarm(AlarmDatetime(p.hour, p.minute, t), name))
    IN  [as EXCEPT !.alarms = list, !.next_alarm = NextAlarm(list, t)]

\* add_alarm: the alarm file afterwards
AddedAlarm(as, input, name, t) ==
    LET p == ParseTime(input)
        list == Appended(as.alarms, NewAlarm(AlarmDatetime(p.hour, p.minute, t), name))
    IN  IF p.ok
        THEN [as EXCEPT !.alarms = list, !.next_alarm = NextAlarm(list, t)]
        ELSE as

\* list.pop(index), index counted from 0
Popped(list, index) ==
    SubSeq(list, 1, index) \o SubSeq(list, index + 2, Len(list))

\* remove_alarm(index): the alarm file afterwards
RemovedAlarm(as, index, t) ==
    IF 0 <= index /\ index < Len(as.alarms)
    THEN LET list == Popped(as.alarms, index)
         IN  [as EXCEPT !.alarms = list, !.next_alarm = NextAlarm(list, t)]
    ELSE as

\* (variant) toggle_alarm without recomputing next_alarm
ToggledAlarm_StaleNext(as, index, t) ==
    IF 0 <= index /\ index < Len(as.alarms)
    THEN [as EXCEPT !.alarms[index + 1].enabled = ~@]
    ELSE as

\* toggle_alarm(index): the alarm file afterwards
ToggledAlarm(as, index, t) ==
    IF 0 <= index /\ index < Len(as.alarms)
    THEN LET list == [as.alarms EXCEPT ![index + 1].enabled = ~@]
         IN  [as EXCEPT !.alarms = list, !.next_alarm = NextAlarm(list, t)]
    ELSE as

-----------------------------------------------------------------------------
(* Timer engine: the new contents of timer-manager.json *)

\* StartedTimer leaving the pause accounting of the previous timer
StartedTimer_KeepsPause(st, duration, name, timer_type, sid, t) ==
    [st EXCEPT !.mode = "timer", !.start_time = t, !.duration = duration,
               !.paused = FALSE, !.pause_start = 0,
               !.timer_name = name, !.timer_type = timer_type, !.session_id = sid]

\* the state.update of start_timer
StartedTimer(st, duration, name, timer_type, sid, t) ==
    [st EXCEPT !.mode = "timer", !.start_time = t, !.duration = duration,
               !.paused = FALSE, !.pause_start = 0, !.total_pause_time = 0,
               !.timer_name = name, !.timer_type = timer_type, !.session_id = sid]

\* the state.update of start_stopwatch (timer_type and session_id are not in it)
StartedStopwatch(st, name, t) ==
    [st EXCEPT !.mode = "stopwatch", !.start_time = t, !.duration = 0,
               !.paused = FALSE, !.pause_start = 0, !.total_pause_time = 0,
               !.timer_name = name]

\* Toggled overwriting the pause total instead of adding to it
Toggled_Overwrites(st, t) ==
    IF st.paused
    THEN [st EXCEPT !.total_pause_time = t - st.pause_start,
                    !.paused = FALSE, !.pause_start = 0]
    ELSE [st EXCEPT !.paused = TRUE, !.pause_start = t]

\* Toggled adding the resume instant instead of the pause length
Toggled_ForgetsPauseStart(st, t) ==
    IF st.paused
    THEN [st EXCEPT !.total_pause_time = @ + t,
                    !.paused = FALSE, !.pause_start = 0]
    ELSE [st EXCEPT !.paused = TRUE, !.pause_start = t]

\* toggle_pause on a non-idle state
Toggled(st, t) ==
    IF st.paused
    THEN [st EXCEPT !.total_pause_time = @ + (t - st.pause_start),
                    !.paused = FALSE, !.pause_start = 0]
    ELSE [st EXCEPT !.paused = TRUE, !.pause_start = t]

\* Stopped without the mode reset
Stopped_KeepsMode(st) ==
    [st EXCEPT !.start_time = 0, !.duration = 0,
               !.paused = FALSE, !.pause_start = 0, !.total_pause_time = 0,
               !.timer_name = "Timer", !.timer_type = "general",
               !.session_id = NoSession]

\* Stopped leaving the session fields
Stopped_KeepsSession(st) ==
    [st EXCEPT !.mode = "idle", !.start_time = 0, !.duration = 0,
               !.paused = FALSE, !.pause_start = 0, !.total_pause_time = 0,
               !.timer_name = "Timer"]

\* the state.update of stop_timer
Stopped(st) ==
    [st EXCEPT !.mode = "idle", !.start_time = 0, !.duration = 0,
               !.paused = FALSE, !.pause_start = 0, !.total_pause_time = 0,
               !.timer_name = "Timer", !.timer_type = "general",
               !.session_id = NoSession]

\* (variant) the completion test of get_status without its mode test
Completes_AnyMode(st, t) ==
    ~st.paused /\ GetCurrentTime(st, t) >= st.duration

\* Completes without the paused test
Completes_IgnoresPause(st, t) ==
    st.mode = "timer" /\ GetCurrentTime(st, t) >= st.duration

\* the completion test of get_status
Completes(st, t) ==
    st.mode = "timer" /\ ~st.paused /\ GetCurrentTime(st, t) >= st.duration

\* stop_timer(interrupted): everything it leaves behind
StopTimer(interrupted, st, t, an, ach, ds, fault) ==
    IF st.mode = "idle"
    THEN [ state |-> st, analytics |-> an, achievements |-> ach, daily_stats |-> ds,
           notes |-> <<>>, awards |-> 0, stops |-> <<>> ]
    ELSE LET upd == IF st.session_id # NoSession /\ st.timer_type \in {"focus", "break"}
                    THEN UpdateSessionRecord(st.session_id, ~interrupted, interrupted,
                                             st, t, an, ach, ds, fault)
                    ELSE [ analytics |-> an, achievements |-> ach, daily_stats |-> ds,
                           notes |-> <<>>, awards |-> 0 ]
         IN  [ state |-> Stopped(st),
               analytics |-> upd.analytics,
               achievements |-> upd.achievements,
               daily_stats |-> upd.daily_stats,
               notes |-> upd.notes \o
                         <<IF interrupted THEN "note:stopped" ELSE "note:complete">>,
               awards |-> upd.awards,
               stops |-> <<interrupted>> ]

\* css class of get_idle_status / get_timer_status / get_stopwatch_status
IdleClass(as) == IF as.next_alarm # <<>> THEN "timer-alarm-pending" ELSE "timer-idle"

TimerClass(st) ==
    IF st.paused THEN "timer-paused"
    ELSE IF st.timer_type = "focus" THEN "timer-focus"
    ELSE IF st.timer_type = "break" THEN "timer-break"
    ELSE "timer-active"

StopwatchClass(st) == IF st.paused THEN "stopwatch-paused" ELSE "stopwatch-active"

StatusClass(st, as) ==
    CASE st.mode = "idle" -> IdleClass(as)
      [] st.mode = "timer" -> TimerClass(st)
      [] st.mode = "stopwatch" -> StopwatchClass(st)

-----------------------------------------------------------------------------
(* History variables *)

\* what one invocation did: op and arg name it, pre is what it loaded of the
\* timer state
Did(op, arg, fault, pre, notes, ret, awards, stops) ==
    [ op |-> op, arg |-> arg, fault |-> fault,
      pre |-> [ mode |-> pre.mode, paused |-> pre.paused ],
      notes |-> notes, ret |-> ret, awards |-> awards, stops |-> stops ]

NoArg == [ type |-> "-", duration |-> 0 ]

Count(seq, x) == Cardinality({ i \in 1..Len(seq) : seq[i] = x })

\* completions .. complete_sounds count completion effects since the last start;
\* pause_mark is the elapsed time just before the pause that is in progress or
\* that the last invocation ended (0 otherwise)
NoHist == [ completions |-> 0, awards |-> 0, complete_notes |-> 0, complete_sounds |-> 0,
            pause_mark |-> 0 ]

\* counters saturate so that the history stays finite
Add(n, k) == IF n + k > 3 THEN 3 ELSE n + k

-----------------------------------------------------------------------------
(* Initial state: no timer running; the productivity manager has either never
   run (its three files are absent) or has created them; at most one alarm set. *)

NoAchievements == [ exists |-> FALSE, points |-> 0, level |-> 1 ]
NewAchievements == [ exists |-> TRUE, points |-> 0, level |-> 1 ]
NoDailyStats == [ exists |-> FALSE, focus_time |-> 0 ]
NewDailyStats == [ exists |-> TRUE, focus_time |-> 0 ]
NewAnalytics == [ exists |-> TRUE, focus_sessions |-> <<>>, break_sessions |-> <<>> ]

NoAlarms == [ alarms |-> <<>>, next_alarm |-> <<>> ]
OneAlarm == [ alarms |-> <<NewAlarm(LocalTime(InitAlarmAt), "Alarm")>>,
              next_alarm |-> <<NewAlarm(LocalTime(InitAlarmAt), "Alarm")>> ]

Init ==
    /\ now = 0
    /\ state = IdleState
    /\ \E ran \in BOOLEAN :
          /\ analytics = IF ran THEN NewAnalytics ELSE NoAnalytics
          /\ achievements = IF ran THEN NewAchievements ELSE NoAchievements
          /\ daily_stats = IF ran THEN NewDailyStats ELSE NoDailyStats
    /\ alarm_state \in {NoAlarms, OneAlarm}
    /\ out = Did("init", NoArg, "none", IdleState, <<>>, "-", 0, <<>>)
    /\ hist = NoHist
    /\ mem = <<>>
    /\ ElsewhereInit

-----------------------------------------------------------------------------
(* Actions: the clock, and one action per invocation *)

\* a fault is an input only where the invocation reaches the file it strikes
StartFaults(timer_type, an) ==
    IF timer_type \in {"focus", "break"}
    THEN {"none", "analytics_write"} \cup (IF an.exists THEN {"analytics_read"} ELSE {})
    ELSE {"none"}

StopFaults(interrupted, st, an, ach, ds) ==
    LET updates == /\ st.mode # "idle"
                   /\ st.session_id # NoSession
                   /\ st.timer_type \in {"focus", "break"}
                   /\ an.exists
        awards == updates /\ AwardCalls(an, st.session_id, ~interrupted, interrupted) > 0
    IN  {"none"}
        \cup (IF updates THEN {"analytics_read", "analytics_write"} ELSE {})
        \cup (IF awards /\ ach.exists THEN {"achievements"} ELSE {})
        \cup (IF awards /\ ds.exists /\ st.timer_type = "focus" THEN {"daily_stats"} ELSE {})

\* the wall clock advances
Tick ==
    /\ now < MaxTime
    /\ now' = now + 1
    /\ out' = Did("tick", NoArg, "none", state, <<>>, "-", 0, <<>>)
    /\ hist' = [hist EXCEPT !.pause_mark = IF state.paused THEN @ ELSE 0]
    /\ UNCHANGED <<state, analytics, achievements, daily_stats, alarm_state, mem, elsewhere>>

\* start-focus / start-break / quick-timer / menu: start_timer
StartTimer(duration, timer_type, sid, fault) ==
    LET opens == timer_type \in {"focus", "break"}
        name == TimerName(timer_type)
    IN  /\ sid \in IF opens THEN FreshSessionIds(analytics) ELSE {NoSession}
        /\ analytics' = IF opens
                        THEN CreateSessionRecord(analytics, sid, duration, name,
                                                 timer_type, now, fault)
                        ELSE analytics
        /\ state' = StartedTimer(state, duration, name, timer_type, sid, now)
        /\ out' = Did("start", [ type |-> timer_type, duration |-> duration ], fault, state,
                      (IF opens THEN CreateSessionNotes(analytics, fault) ELSE <<>>)
                          \o <<"note:started">>,
                      "-", 0, <<>>)
        /\ hist' = NoHist
        /\ UNCHANGED <<now, achievements, daily_stats, alarm_state, mem, elsewhere>>

\* menu "Start stopwatch": start_stopwatch
StartStopwatch ==
    /\ state' = StartedStopwatch(state, "Stopwatch", now)
    /\ out' = Did("stopwatch", NoArg, "none", state, <<"note:stopwatch_started">>, "-", 0, <<>>)
    /\ hist' = NoHist
    /\ UNCHANGED <<now, analytics, achievements, daily_stats, alarm_state, mem, elsewhere>>

\* TogglePause without the idle test
TogglePause_NoIdleCheck ==
    /\ state' = Toggled(state, now)
    /\ out' = Did("toggle", NoArg, "none", state,
                  IF state.paused THEN <<"note:resumed">> ELSE <<"note:paused">>,
                  "-", 0, <<>>)
    /\ hist' = [hist EXCEPT !.pause_mark =
                    IF state.paused THEN @ ELSE GetCurrentTime(state, now)]
    /\ UNCHANGED <<now, analytics, achievements, daily_stats, alarm_state, mem, elsewhere>>

\* toggle / pause: toggle_pause
TogglePause ==
    /\ state' = IF state.mode = "idle" THEN state ELSE Toggled(state, now)
    /\ out' = Did("toggle", NoArg, "none", state,
                  IF state.mode = "idle" THEN <<>>
                  ELSE IF state.paused THEN <<"note:resumed">> ELSE <<"note:paused">>,
                  "-", 0, <<>>)
    /\ hist' = [hist EXCEPT !.pause_mark =
                    IF state.mode = "idle" THEN 0
                    ELSE IF state.paused THEN @ ELSE GetCurrentTime(state, now)]
    /\ UNCHANGED <<now, analytics, achievements, daily_stats, alarm_state, mem, elsewhere>>

\* stop / menu "Stop current": stop_timer() with interrupted = True
Stop(fault) ==
    LET r == StopTimer(TRUE, state, now, analytics, achievements, daily_stats, fault)
    IN  /\ state' = r.state
        /\ analytics' = r.analytics
        /\ achievements' = r.achievements
        /\ daily_stats' = r.daily_stats
        /\ out' = Did("stop", NoArg, fault, state, r.notes, "-", r.awards, r.stops)
        /\ hist' = [hist EXCEPT !.awards = Add(@, r.awards), !.pause_mark = 0]
        /\ UNCHANGED <<now, alarm_state, mem, elsewhere>>

\* status: get_status
GetStatus(fault) ==
    LET alarms1 == CheckAlarms(alarm_state, now)
        anotes == AlarmNotes(alarm_state.alarms, now)
        r == StopTimer(FALSE, state, now, analytics, achievements, daily_stats, fault)
    IN  /\ alarm_state' = alarms1
        /\ IF Completes(state, now)
           THEN /\ fault \in StopFaults(FALSE, state, analytics, achievements, daily_stats)
                /\ state' = r.state
                /\ analytics' = r.analytics
                /\ achievements' = r.achievements
                /\ daily_stats' = r.daily_stats
                /\ out' = Did("status", NoArg, fault, state,
                              anotes \o <<"sound:complete", "note:timer_complete">> \o r.notes,
                              IdleClass(alarms1), r.awards, r.stops)
                /\ hist' = [ completions |-> Add(hist.completions, 1),
                             awards |-> Add(hist.awards, r.awards),
                             complete_notes |-> Add(hist.complete_notes,
                                                    1 + Count(r.notes, "note:complete")),
                             complete_sounds |-> Add(hist.complete_sounds, 1),
                             pause_mark |-> 0 ]
           ELSE /\ fault = "none"
                /\ out' = Did("status", NoArg, fault, state, anotes,
                              StatusClass(state, alarms1), 0, <<>>)
                /\ hist' = [hist EXCEPT !.pause_mark = IF state.paused THEN @ ELSE 0]
                /\ UNCHANGED <<state, analytics, achievements, daily_stats>>
        /\ UNCHANGED <<now, mem, elsewhere>>

Next ==
    \/ Tick
    \/ \E d \in Durations, ty \in TimerTypes, sid \in TimerSessionIds \cup {NoSession} :
          \E f \in StartFaults(ty, analytics) : StartTimer(d, ty, sid, f)
    \/ StartStopwatch
    \/ TogglePause
    \/ \E f \in StopFaults(TRUE, state, analytics, achievements, daily_stats) : Stop(f)
    \/ \E f \in Faults : GetStatus(f)

Spec == Init /\ [][Next]_vars

-----------------------------------------------------------------------------
(* The alarm list on its own: no timer runs; alarms are added from the alarm
   dialog, toggled and removed from the alarm manager, and fired by status
   polls.  The clock starts at 01:00:00 local time, steps by ticks through the
   first MaxTime ticks of a day, and jumps whole days. *)

\* what the user types into the alarm dialog, split at ':'
AlarmInputs ==
    { <<Part(1), Part(0)>>, <<Part(1), Part(1)>>,
      <<Part(24), Part(0)>>, <<Part(1), Part(60)>>, <<Part(0 - 1), Part(0)>>,
      <<NotAnInt, Part(0)>>, <<Part(1)>>, <<Part(1), Part(0), Part(0)>> }

AlarmNames == {"Wake up"}

\* the line of the alarm manager's menu for one alarm: status, name, HH:MM
Option(alarm) ==
    [ enabled |-> alarm.enabled, name |-> alarm.name, hhmm |-> alarm.time % Day ]

\* the index the manager's loop finds for the selected line: the first line
\* that reads the same, counted from 0
SelectedIndex(alarms, sel) ==
    (CHOOSE i \in 1..Len(alarms) :
        /\ Option(alarms[i]) = Option(alarms[sel])
        /\ \A j \in 1..(i - 1) : Option(alarms[j]) # Option(alarms[sel])) - 1

AlarmInit ==
    /\ now = 0
    /\ state = IdleState
    /\ analytics = NoAnalytics
    /\ achievements = NoAchievements
    /\ daily_stats = NoDailyStats
    /\ alarm_state = NoAlarms
    /\ out = Did("init", NoArg, "none", IdleState, <<>>, "-", 0, <<>>)
    /\ hist = NoHist
    /\ mem = <<>>
    /\ ElsewhereInit

\* time passes without an invocation
Sleep(dt) ==
    /\ \/ dt = 1 /\ (now % Day) < MaxTime
       \/ dt = Day /\ now + Day <= MaxDays * Day + MaxTime
    /\ now' = now + dt
    /\ out' = Did("sleep", dt, "none", state, <<>>, "-", 0, <<>>)
    /\ UNCHANGED <<state, analytics, achievements, daily_stats, alarm_state, hist, mem, elsewhere>>

\* show_alarm_dialog: add_alarm on what the user typed
AddAlarm(input, name) ==
    LET p == ParseTime(input)
    IN  /\ p.ok => Len(alarm_state.alarms) < MaxAlarms
        /\ alarm_state' = AddedAlarm(alarm_state, input, name, now)
        /\ out' = Did("add", input, "none", state,
                      IF p.ok THEN <<"note:alarm_set">> ELSE <<"note:alarm_error">>,
                      IF p.ok THEN "true" ELSE "false", 0, <<>>)
        /\ UNCHANGED <<now, state, analytics, achievements, daily_stats, hist, mem, elsewhere>>

\* show_alarm_manager on an empty list
ManageNoAlarms ==
    /\ alarm_state.alarms = <<>>
    /\ out' = Did("manage", "-", "none", state, <<"note:no_alarms">>, "-", 0, <<>>)
    /\ UNCHANGED <<now, state, analytics, achievements, daily_stats, alarm_state, hist, mem, elsewhere>>

\* show_alarm_manager: the user picks line sel, then toggle or delete
ManageAlarm(sel, action) ==
    LET index == SelectedIndex(alarm_state.alarms, sel)
    IN  /\ sel \in 1..Len(alarm_state.alarms)
        /\ alarm_state' = IF action = "toggle"
                          THEN ToggledAlarm(alarm_state, index, now)
                          ELSE RemovedAlarm(alarm_state, index, now)
        /\ out' = Did(action, [ sel |-> sel, index |-> index ], "none", state,
                      IF action = "toggle" THEN <<"note:alarm_toggled">>
                                           ELSE <<"note:alarm_removed">>,
                      "true", 0, <<>>)
        /\ UNCHANGED <<now, state, analytics, achievements, daily_stats, hist, mem, elsewhere>>

AlarmNext ==
    \/ \E dt \in {1, Day} : Sleep(dt)
    \/ \E input \in AlarmInputs, name \in AlarmNames : AddAlarm(input, name)
    \/ ManageNoAlarms
    \/ \E sel \in 1..MaxAlarms, action \in {"toggle", "delete"} : ManageAlarm(sel, action)
    \/ GetStatus("none")

AlarmSpec == AlarmInit /\ [][AlarmNext]_vars

-----------------------------------------------------------------------------
(* The achievement points: productivity-manager.py and the timer's award write
   achievements.json.  A ProductivityManager loads the file when it is built,
   works on that copy and writes the whole copy back from every method that
   adds points; the timer's award reads and writes the file in one go, also
   while a ProductivityManager is in flight.  This specification follows
   achievements.json alone: the other productivity files are held absent. *)

\* the achievements the code unlocks, with their points
AchievementPoints ==
    [ first_goal |-> 10, habit_master |-> 100, note_taker |-> 30,
      productivity_guru |-> 200 ]

\* load_achievements on a missing file
DefaultAchievements == [ exists |-> TRUE, points |-> 0, level |-> 1, unlocked |-> {} ]

\* (variant) the level computed from the points before the addition
AddPoints_StaleLevel(ach, points) ==
    [ach EXCEPT !.points = @ + points,
                !.level = IF LevelOf(ach.points) > @ THEN LevelOf(ach.points) ELSE @]

\* add_points on the manager's copy, with the unlock of productivity_guru it
\* may call, which adds points in turn
RECURSIVE AddPoints(_, _)
AddPoints(ach, points) ==
    LET old_level == ach.level
        new_level == ((ach.points + points) \div LevelStep) + 1
        added == [ach EXCEPT !.points = @ + points,
                             !.level = IF new_level > old_level THEN new_level ELSE @]
    IN  IF /\ new_level > old_level
           /\ new_level >= GuruLevel
           /\ "productivity_guru" \notin added.unlocked
        THEN AddPoints([added EXCEPT !.unlocked = @ \cup {"productivity_guru"}],
                       AchievementPoints["productivity_guru"])
        ELSE added

\* unlock_achievement on the manager's copy
UnlockAchievement(ach, id) ==
    IF id \in ach.unlocked THEN ach
    ELSE AddPoints([ach EXCEPT !.unlocked = @ \cup {id}], AchievementPoints[id])

\* the methods that add points: add_goal (first goal), update_goal_progress
\* (goal completed), complete_habit (with or without a 30-day streak), add_note
\* (50th note)
ProductivityEvents ==
    {"first_goal", "goal_completed", "habit_completed", "habit_streak", "fiftieth_note"}

\* the manager's copy after one such method
AfterEvent(ach, event) ==
    CASE event = "first_goal" -> UnlockAchievement(ach, "first_goal")
      [] event = "goal_completed" -> AddPoints(ach, GoalPoints)
      [] event = "habit_completed" -> AddPoints(ach, HabitPoints)
      [] event = "habit_streak" ->
            AddPoints(UnlockAchievement(ach, "habit_master"), HabitPoints)
      [] event = "fiftieth_note" -> UnlockAchievement(ach, "note_taker")

PointsInit ==
    /\ now = 0
    /\ state = IdleState
    /\ analytics = NoAnalytics
    /\ achievements = NoAchievements
    /\ daily_stats = NoDailyStats
    /\ alarm_state = NoAlarms
    /\ out = Did("init", NoArg, "none", IdleState, <<>>, "-", 0, <<>>)
    /\ hist = NoHist
    /\ mem = <<>>
    /\ ElsewhereInit

\* ProductivityManager.__init__: load_achievements, which creates the file
PmOpen ==
    LET data == IF achievements.exists THEN achievements ELSE DefaultAchievements
    IN  /\ mem = <<>>
        /\ mem' = <<[ achievements |-> data, calls |-> 0 ]>>
        /\ achievements' = data
        /\ out' = Did("pm_open", "-", "none", state, <<>>, "-", 0, <<>>)
        /\ UNCHANGED <<now, state, analytics, daily_stats, alarm_state, hist, elsewhere>>

\* one method of the manager in flight: it changes the copy and writes it
PmMethod(event) ==
    /\ mem # <<>>
    /\ mem[1].calls < MaxCalls
    /\ mem[1].achievements.points < MaxPoints
    /\ mem' = <<[ achievements |-> AfterEvent(mem[1].achievements, event),
                  calls |-> mem[1].calls + 1 ]>>
    /\ achievements' = AfterEvent(mem[1].achievements, event)
    /\ out' = Did("pm", "-", "none", state, <<>>, "-", 0, <<>>)
    /\ UNCHANGED <<now, state, analytics, daily_stats, alarm_state, hist, elsewhere>>

\* the manager exits
PmExit ==
    /\ mem # <<>>
    /\ mem' = <<>>
    /\ out' = Did("pm_exit", "-", "none", state, <<>>, "-", 0, <<>>)
    /\ UNCHANGED <<now, state, analytics, achievements, daily_stats, alarm_state, hist, elsewhere>>

\* the timer completes a focus session: award_productivity_points
AwardProductivityPoints ==
    /\ achievements.points < MaxPoints
    /\ achievements' = AwardAchievements(achievements, FocusBonus, 1, "none")
    /\ out' = Did("award", "-", "none", state, <<>>, "-",
                  IF achievements.exists THEN 1 ELSE 0, <<>>)
    /\ UNCHANGED <<now, state, analytics, daily_stats, alarm_state, hist, mem, elsewhere>>

PointsNext ==
    \/ PmOpen
    \/ \E event \in ProductivityEvents : PmMethod(event)
    \/ PmExit
    \/ AwardProductivityPoints

PointsSpec == PointsInit /\ [][PointsNext]_vars

-----------------------------------------------------------------------------
(* Overlapping invocations of timer-manager.py.  An invocation builds its
   TimerManager, which loads timer-manager.json and alarm-state.json, and later
   runs its method on what it loaded; the method writes a file by overwriting
   it with the invocation's copy.  Nothing locks the files, so other
   invocations may load and run in between. *)

\* the invocations that overlap: a command and a poll, or two commands
Overlapping == {"first", "second"}

\* TimerManager.__init__: the copies an invocation works on
Invocation(op, arg) ==
    [ op |-> op, arg |-> arg, state |-> state, alarm_state |-> alarm_state ]

\* (variant) an invocation that reads the files again when its method runs
Loaded_Reread(m) == [m EXCEPT !.state = state, !.alarm_state = alarm_state]

\* self.state and self.alarm_state when the method runs: still the loaded copies
Loaded(m) == m

\* the invocations still in flight once invocation i has exited
Without(seq, i) == SubSeq(seq, 1, i - 1) \o SubSeq(seq, i + 1, Len(seq))

\* what a method found: its own copy of the timer state and of the alarm
\* list, and the files as they were when it ran
Found(m) ==
    [ arg |-> m.arg, loaded |-> m.state, file |-> state,
      loaded_alarms |-> m.alarm_state.alarms, file_alarms |-> alarm_state.alarms ]

\* an invocation starts: the process is spawned and loads the files
Load(op, arg) ==
    /\ Len(mem) < Cardinality(Overlapping)
    /\ mem' = Append(mem, Invocation(op, arg))
    /\ out' = Did("load", "-", "none", state, <<>>, "-", 0, <<>>)
    /\ UNCHANGED <<now, state, analytics, achievements, daily_stats, alarm_state, hist, elsewhere>>

\* quick-timer: start_timer of a general timer
RunStart(i) ==
    LET m == Loaded(mem[i])
    IN  /\ m.op = "start"
        /\ state' = StartedTimer(m.state, m.arg, TimerName("general"), "general",
                                 NoSession, now)
        /\ out' = Did("start", Found(m), "none", m.state, <<"note:started">>, "-", 0, <<>>)
        /\ hist' = NoHist
        /\ mem' = Without(mem, i)
        /\ UNCHANGED <<now, analytics, achievements, daily_stats, alarm_state, elsewhere>>

\* toggle / pause: toggle_pause, which saves unless it found its copy idle
RunToggle(i) ==
    LET m == Loaded(mem[i])
    IN  /\ m.op = "toggle"
        /\ state' = IF m.state.mode = "idle" THEN state ELSE Toggled(m.state, now)
        /\ out' = Did("toggle", Found(m), "none", m.state,
                      IF m.state.mode = "idle" THEN <<>>
                      ELSE IF m.state.paused THEN <<"note:resumed">> ELSE <<"note:paused">>,
                      "-", 0, <<>>)
        /\ mem' = Without(mem, i)
        /\ UNCHANGED <<now, analytics, achievements, daily_stats, alarm_state, hist, elsewhere>>

\* stop: stop_timer(), which saves unless it found its copy idle
RunStop(i) ==
    LET m == Loaded(mem[i])
        r == StopTimer(TRUE, m.state, now, analytics, achievements, daily_stats, "none")
    IN  /\ m.op = "stop"
        /\ state' = IF m.state.mode = "idle" THEN state ELSE r.state
        /\ analytics' = r.analytics
        /\ achievements' = r.achievements
        /\ daily_stats' = r.daily_stats
        /\ out' = Did("stop", Found(m), "none", m.state, r.notes, "-", r.awards, r.stops)
        /\ mem' = Without(mem, i)
        /\ UNCHANGED <<now, alarm_state, hist, elsewhere>>

\* status: get_status; check_alarms saves the alarm copy if an alarm fired,
\* stop_timer saves the timer copy if the timer completed
RunStatus(i) ==
    LET m == Loaded(mem[i])
        fired == \E k \in 1..Len(m.alarm_state.alarms) :
                    Triggered(m.alarm_state.alarms[k], now)
        alarms1 == CheckAlarms(m.alarm_state, now)
        anotes == AlarmNotes(m.alarm_state.alarms, now)
        r == StopTimer(FALSE, m.state, now, analytics, achievements, daily_stats, "none")
    IN  /\ m.op = "status"
        /\ alarm_state' = IF fired THEN alarms1 ELSE alarm_state
        /\ IF Completes(m.state, now)
           THEN /\ state' = r.state
                /\ analytics' = r.analytics
                /\ achievements' = r.achievements
                /\ daily_stats' = r.daily_stats
                /\ out' = Did("status", Found(m), "none", m.state,
                              anotes \o <<"sound:complete", "note:timer_complete">> \o r.notes,
                              IdleClass(alarms1), r.awards, r.stops)
                /\ hist' = [hist EXCEPT !.completions = Add(@, 1)]
           ELSE /\ out' = Did("status", Found(m), "none", m.state, anotes,
                              StatusClass(m.state, alarms1), 0, <<>>)
                /\ UNCHANGED <<state, analytics, achievements, daily_stats, hist>>
        /\ mem' = Without(mem, i)
        /\ UNCHANGED <<now, elsewhere>>

\* show_alarm_manager is opened: it loads the list and shows it, and the user
\* picks line sel and then toggle or delete
OpenManager(sel, op) ==
    /\ mem = <<>>
    /\ sel \in 1..Len(alarm_state.alarms)
    /\ Load(op, sel)

\* the alarm manager, after the user picked line m.arg of the list it loaded:
\* toggle_alarm or remove_alarm at the index of that line
RunManage(i) ==
    LET m == Loaded(mem[i])
        index == SelectedIndex(m.alarm_state.alarms, m.arg)
    IN  /\ m.op \in {"toggle_alarm", "delete_alarm"}
        /\ m.arg \in 1..Len(m.alarm_state.alarms)
        /\ alarm_state' = IF m.op = "toggle_alarm"
                          THEN ToggledAlarm(m.alarm_state, index, now)
                          ELSE RemovedAlarm(m.alarm_state, index, now)
        /\ out' = Did(m.op, Found(m), "none", m.state,
                      IF m.op = "toggle_alarm" THEN <<"note:alarm_toggled">>
                                               ELSE <<"note:alarm_removed">>,
                      "true", 0, <<>>)
        /\ mem' = Without(mem, i)
        /\ UNCHANGED <<now, state, analytics, achievements, daily_stats, hist, elsewhere>>

\* commands and polls on the timer
RaceNext ==
    \/ Tick
    \/ Load("start", MaxDuration)
    \/ \E op \in {"toggle", "stop", "status"} : Load(op, "-")
    \/ \E i \in 1..Len(mem) : RunStart(i)
    \/ \E i \in 1..Len(mem) : RunToggle(i)
    \/ \E i \in 1..Len(mem) : RunStop(i)
    \/ \E i \in 1..Len(mem) : RunStatus(i)

RaceSpec == AlarmInit /\ [][RaceNext]_vars

\* the alarm dialog and polls, each in one go, around an alarm manager that
\* waits for its user; the clock jumps whole days
ManagerInputs == { <<Part(1), Part(0)>>, <<Part(1), Part(1)>> }

ManagerNext ==
    \/ Sleep(Day)
    \/ \E input \in ManagerInputs, name \in AlarmNames : AddAlarm(input, name)
    \/ GetStatus("none")
    \/ \E sel \in 1..MaxAlarms, op \in {"toggle_alarm", "delete_alarm"} :
          OpenManager(sel, op)
    \/ \E i \in 1..Len(mem) : RunManage(i)

ManagerSpec == AlarmInit /\ [][ManagerNext]_vars

-----------------------------------------------------------------------------
(* The session log over several timers: the productivity manager has created
   its files, no alarm is set, no file operation fails, and timers are
   started one over the other, each focus or break timer with a fresh id. *)

SessionInit ==
    /\ now = 0
    /\ state = IdleState
    /\ analytics = NewAnalytics
    /\ achievements = NewAchievements
    /\ daily_stats = NewDailyStats
    /\ alarm_state = NoAlarms
    /\ out = Did("init", NoArg, "none", IdleState, <<>>, "-", 0, <<>>)
    /\ hist = NoHist
    /\ mem = <<>>
    /\ ElsewhereInit

SessionNext ==
    \/ Tick
    \/ \E ty \in TimerTypes, sid \in SessionIds \cup {NoSession} :
          StartTimer(MaxDuration, ty, sid, "none")
    \/ TogglePause
    \/ Stop("none")
    \/ GetStatus("none")

SessionSpec == SessionInit /\ [][SessionNext]_vars

-----------------------------------------------------------------------------
(* A completing poll that dies.  get_status plays the sound and sends the
   notification, then stop_timer calls update_session_record, which writes
   achievements.json and daily_stats.json (award_productivity_points) and then
   analytics.json, and only then does stop_timer save timer-manager.json.  A
   process killed on the way has made the first `done` of these writes. *)

\* (variant) the order with the timer state saved first
WriteOrder_StateFirst == <<"state", "achievements", "daily_stats", "analytics">>

\* the files in the order a completing poll writes them
WriteOrder == <<"achievements", "daily_stats", "analytics", "state">>

\* whether a poll that dies after `done` writes has written this file
Written(file, done) ==
    \E i \in 1..done : WriteOrder[i] = file

\* status: get_status finds the timer complete and the process dies after
\* `done` of its writes
PollDies(done) ==
    LET r == StopTimer(FALSE, state, now, analytics, achievements, daily_stats, "none")
        awards == IF Written("achievements", done) THEN r.awards ELSE 0
    IN  /\ Completes(state, now)
        /\ hist.completions < MaxCrashes
        /\ done \in 0..(Len(WriteOrder) - 1)
        /\ achievements' = IF Written("achievements", done) THEN r.achievements
                                                            ELSE achievements
        /\ daily_stats' = IF Written("daily_stats", done) THEN r.daily_stats
                                                          ELSE daily_stats
        /\ analytics' = IF Written("analytics", done) THEN r.analytics ELSE analytics
        /\ state' = IF Written("state", done) THEN r.state ELSE state
        /\ out' = Did("died", [ type |-> "-", duration |-> 0, done |-> done ], "none", state,
                      <<"sound:complete", "note:timer_complete">>, "-", awards, <<>>)
        /\ hist' = [hist EXCEPT !.completions = Add(@, 1),
                                !.awards = Add(@, awards),
                                !.complete_notes = Add(@, 1),
                                !.complete_sounds = Add(@, 1),
                                !.pause_mark = 0]
        /\ UNCHANGED <<now, alarm_state, mem, elsewhere>>

CrashNext ==
    \/ Tick
    \/ \E d \in Durations, ty \in TimerTypes, sid \in TimerSessionIds \cup {NoSession} :
          StartTimer(d, ty, sid, "none")
    \/ TogglePause
    \/ Stop("none")
    \/ GetStatus("none")
    \/ \E done \in 0..(Len(WriteOrder) - 1) : PollDies(done)

CrashSpec == SessionInit /\ [][CrashNext]_vars

-----------------------------------------------------------------------------
(* Loading a state file.  TimerManager.__init__ and the pomodoro commands
   start by reading their JSON state file; disk is the file as found:
   program names the loader, cond the condition of the file, data the keys
   and values of the object stored in it. *)

\* absent: no such file; unreadable: open() fails; not_json: the text is no
\* JSON document (empty, truncated); not_text: the bytes are no UTF-8 text;
\* not_object: a JSON document that is no object (null, a number, a list)
FileConditions == {"absent", "unreadable", "not_json", "not_text", "not_object", "object"}

\* what open(), json.load and the merge loop raise on a file in this condition
Raises(cond) ==
    CASE cond = "unreadable" -> "IOError"
      [] cond = "not_json" -> "JSONDecodeError"
      [] cond = "not_text" -> "UnicodeDecodeError"
      [] cond = "not_object" -> "TypeError"
      [] OTHER -> "-"

AllExceptions == { Raises(cond) : cond \in FileConditions } \ {"-"}

\* except (json.JSONDecodeError, IOError) in timer-manager.py
TimerCaught == {"JSONDecodeError", "IOError"}

\* the bare except of waybar-pomodoro.py
PomodoroCaught == AllExceptions

\* for key, default_value in defaults.items(): if key not in data: data[key] = default_value
MergeDefaults(data, defaults) ==
    [ k \in DOMAIN data \cup DOMAIN defaults |->
        IF k \in DOMAIN data THEN data[k] ELSE defaults[k] ]

\* a load_state: what it returns, or the exception that leaves it
LoadJson(file, defaults, caught) ==
    IF file.cond = "absent"
    THEN [ raised |-> "-", state |-> defaults ]
    ELSE IF file.cond = "object"
    THEN [ raised |-> "-", state |-> MergeDefaults(file.data, defaults) ]
    ELSE IF Raises(file.cond) \in caught
    THEN [ raised |-> "-", state |-> defaults ]
    ELSE [ raised |-> Raises(file.cond), state |-> NoFile ]

\* the defaults of load_alarm_state
AlarmDefaults == [ alarms |-> <<>>, next_alarm |-> <<>>, alarm_name |-> "Alarm" ]

\* no date: last_completed_date = ""
NoDate == 0 - 1

\* int(get_setting('work_minutes')) * 60, in ticks
PhaseDuration(minutes) == (minutes * 60) \div SecondsPerTick

\* the defaults of the pomodoro load_state
PomodoroDefaults(work_minutes) ==
    [ active |-> FALSE, paused |-> FALSE, pause_time |-> 0, mode |-> "work",
      start_time |-> 0, duration |-> PhaseDuration(work_minutes),
      elapsed_pause_time |-> 0, completed_pomodoros |-> 0, completed_today |-> 0,
      last_completed_date |-> NoDate, current_task |-> "Focus",
      focus_mode |-> FALSE, focus_apps |-> <<>> ]

\* DEFAULT_SETTINGS['General']['work_minutes']
DefaultWorkMinutes == 25

Defaults(program) ==
    CASE program = "timer" -> IdleState
      [] program = "alarm" -> AlarmDefaults
      [] program = "pomodoro" -> PomodoroDefaults(DefaultWorkMinutes)

Caught(program) ==
    IF program = "pomodoro" THEN PomodoroCaught ELSE TimerCaught

\* an object some version of the program has stored: every key with a value
\* other than its default, and a key this version does not know
Stored(program) ==
    CASE program = "timer" ->
            [ mode |-> "timer", start_time |-> 1, duration |-> MaxDuration, paused |-> TRUE,
              pause_start |-> 1, total_pause_time |-> 1, timer_name |-> "Focus Session",
              timer_type |-> "focus", session_id |-> 1, legacy |-> "kept" ]
      [] program = "alarm" ->
            [ alarms |-> OneAlarm.alarms, next_alarm |-> OneAlarm.next_alarm,
              alarm_name |-> "Wake up", legacy |-> "kept" ]
      [] program = "pomodoro" ->
            [ active |-> TRUE, paused |-> TRUE, pause_time |-> 1, mode |-> "short_break",
              start_time |-> 1, duration |-> 1, elapsed_pause_time |-> 1,
              completed_pomodoros |-> 1, completed_today |-> 1,
              last_completed_date |-> 0, current_task |-> "Read",
              focus_mode |-> TRUE, focus_apps |-> <<"0x1">>, legacy |-> "kept" ]

Programs == {"timer", "alarm", "pomodoro"}

\* the files a loader may find: any condition, and any subset of the keys
Files(program) ==
    { [ program |-> program, cond |-> cond, data |-> [ k \in {} |-> 0 ] ] :
         cond \in FileConditions \ {"object"} }
    \cup { [ program |-> program, cond |-> "object",
             data |-> [ k \in keys |-> Stored(program)[k] ] ] :
              keys \in SUBSET DOMAIN Stored(program) }

LoadInit ==
    /\ now = 0
    /\ state = IdleState
    /\ analytics = NoAnalytics
    /\ achievements = NoAchievements
    /\ daily_stats = NoDailyStats
    /\ alarm_state = NoAlarms
    /\ out = [ op |-> "init" ]
    /\ hist = NoHist
    /\ mem = <<>>
    /\ \E program \in Programs : disk \in Files(program)
    /\ pomodoro = NoFile
    /\ prayer = NoFile

\* what the last step found of the file
LoadResult(r) == [ op |-> "load_state", raised |-> r.raised, state |-> r.state ]

\* TimerManager(): self.state = self.load_state()
LoadTimerState ==
    /\ disk.program = "timer"
    /\ out' = LoadResult(LoadJson(disk, IdleState, TimerCaught))
    /\ UNCHANGED <<now, state, analytics, achievements, daily_stats, alarm_state, hist,
                   mem, elsewhere>>

\* TimerManager(): self.alarm_state = self.load_alarm_state()
LoadAlarmState ==
    /\ disk.program = "alarm"
    /\ out' = LoadResult(LoadJson(disk, AlarmDefaults, TimerCaught))
    /\ UNCHANGED <<now, state, analytics, achievements, daily_stats, alarm_state, hist,
                   mem, elsewhere>>

\* waybar-pomodoro.py: state = load_state()
LoadPomodoroState ==
    /\ disk.program = "pomodoro"
    /\ out' = LoadResult(LoadJson(disk, PomodoroDefaults(DefaultWorkMinutes), PomodoroCaught))
    /\ UNCHANGED <<now, state, analytics, achievements, daily_stats, alarm_state, hist,
                   mem, elsewhere>>

LoadNext ==
    \/ LoadTimerState
    \/ LoadAlarmState
    \/ LoadPomodoroState

LoadSpec == LoadInit /\ [][LoadNext]_vars

-----------------------------------------------------------------------------
(* prayertimes.py.  Every poll of the bar runs main(): it takes the prayer
   times from the cache file if that is younger than CACHE_VALIDITY, fetches
   them otherwise, and prints the status of the next prayer, sending a
   reminder on the way.  prayer.cache is waybar-prayertimes.json,
   prayer.notified is prayer-notification-state.json, prayer.flag the time the
   startup flag file was written; prayer.sent (history) counts the reminders
   sent for the prayer that is approaching.  Africa/Cairo is taken at UTC+2
   throughout. *)

CacheValidity == 43200
FetchAttempts == 3
FetchBackoff == 2
RepeatWindow == 300
FlagLifetime == 86400
CairoUtcHours == 2
ImminentMinutes == 15
ApproachingMinutes == 30

\* NOTIFICATION_THRESHOLDS
NotificationThresholds == <<15, 5, 0>>
NoThreshold == 0 - 1

\* time.time() differences, in seconds
Seconds(ticks) == ticks * SecondsPerTick

\* datetime.now(CAIRO_TZ) on the axis of now
CairoTime(t) == t + CairoUtcHours * (Day \div 24)

\* data['data']['timings'] of the API, filtered to the five prayers: the two
\* of them the model keeps, as (hour, minute)
PrayerTimes == [ Fajr |-> <<2, 16>>, Dhuhr |-> <<14, 16>> ]
NoPrayers == [ k \in {} |-> <<0, 0>> ]

NoCache == [ cond |-> "absent", timestamp |-> 0, prayers |-> NoPrayers ]
NoNotified == [ last_prayer |-> "", last_threshold |-> NoThreshold, last_time |-> 0 ]

\* load_cached_prayers: the cached times, NoPrayers standing for None as well
\* (both are falsy where the result is used)
LoadCachedPrayers(cache, t) ==
    IF cache.cond = "object" /\ Seconds(t - cache.timestamp) < CacheValidity
    THEN cache.prayers
    ELSE NoPrayers

\* the prayer's next occurrence: today in Cairo, or tomorrow if that has passed
PrayerDatetime(hm, t) ==
    LET cairo == CairoTime(t)
        today == (cairo - (cairo % Day)) + TimeOfDay(hm[1], hm[2])
    IN  IF today <= cairo THEN today + Day ELSE today

\* get_next_prayer_info: the next prayer and the time remaining, in ticks
NextPrayer(prayers, t) ==
    CHOOSE p \in DOMAIN prayers :
        \A q \in DOMAIN prayers : PrayerDatetime(prayers[p], t) <= PrayerDatetime(prayers[q], t)

TimeRemaining(prayers, t) == PrayerDatetime(prayers[NextPrayer(prayers, t)], t) - CairoTime(t)

\* minutes_remaining = int(time_remaining.total_seconds() / 60)
MinutesRemaining(remaining) == Seconds(remaining) \div 60

CssClass(remaining) ==
    IF Seconds(remaining) <= ImminentMinutes * 60 THEN "prayer-imminent"
    ELSE IF Seconds(remaining) <= ApproachingMinutes * 60 THEN "prayer-approaching"
    ELSE "prayer-normal"

\* the loop over NOTIFICATION_THRESHOLDS: the first threshold, in the order of
\* the list, that minutes_remaining does not exceed
RECURSIVE ThresholdFrom(_, _)
ThresholdFrom(i, minutes) ==
    IF i > Len(NotificationThresholds) THEN NoThreshold
    ELSE IF minutes <= NotificationThresholds[i] THEN NotificationThresholds[i]
    ELSE ThresholdFrom(i + 1, minutes)

ThresholdToNotify(minutes) == ThresholdFrom(1, minutes)

\* check_and_send_notifications: whether it sends a reminder
SendsReminder(notified, prayer_name, minutes, t) ==
    /\ ThresholdToNotify(minutes) # NoThreshold
    /\ ~ /\ notified.last_prayer = prayer_name
         /\ notified.last_threshold = ThresholdToNotify(minutes)
         /\ Seconds(t - notified.last_time) < RepeatWindow

\* save_notification_state
Notified(notified, prayer_name, minutes, t) ==
    IF SendsReminder(notified, prayer_name, minutes, t)
    THEN [ last_prayer |-> prayer_name, last_threshold |-> ThresholdToNotify(minutes),
           last_time |-> t ]
    ELSE notified

\* cleanup_old_cache_files then send_startup_notification: the flag file
StartupFlag(flag, t) ==
    IF flag = NoTime \/ Seconds(t - flag) > FlagLifetime THEN t ELSE flag

\* fetch_prayer_times: `failing` attempts fail before one succeeds with
\* `response`; the times it returns, the cache it leaves, whether it raised
FetchPrayerTimes(cache, failing, response, t) ==
    LET cached == LoadCachedPrayers(cache, t) IN
    IF cached # NoPrayers
    THEN [ prayers |-> cached, cache |-> cache, raised |-> FALSE, attempts |-> 0, slept |-> 0 ]
    ELSE IF failing >= FetchAttempts
    THEN [ prayers |-> NoPrayers, cache |-> cache, raised |-> TRUE,
           attempts |-> FetchAttempts, slept |-> (FetchAttempts - 1) * FetchBackoff ]
    ELSE [ prayers |-> response,
           cache |-> [ cond |-> "object", timestamp |-> t, prayers |-> response ],
           raised |-> FALSE, attempts |-> failing + 1, slept |-> failing * FetchBackoff ]

\* the reminders sent so far for the prayer due at `due`
Sent(sent, due, sends, threshold) ==
    LET before == IF sent.due = due THEN sent.thresholds ELSE <<>>
    IN  [ due |-> due,
          thresholds |-> IF sends /\ Len(before) < MaxReminders
                         THEN Append(before, threshold) ELSE before ]

NoSent == [ due |-> NoTime, thresholds |-> <<>> ]

PrayerInit ==
    /\ now = 0
    /\ state = IdleState
    /\ analytics = NoAnalytics
    /\ achievements = NoAchievements
    /\ daily_stats = NoDailyStats
    /\ alarm_state = NoAlarms
    /\ out = [ op |-> "init" ]
    /\ hist = NoHist
    /\ mem = <<>>
    /\ disk = NoFile
    /\ pomodoro = NoFile
    /\ prayer = [ cache |-> NoCache, notified |-> NoNotified, flag |-> NoTime, sent |-> NoSent ]

\* a minute passes, in the MaxMinutes minutes that lead up to a prayer
Minute ==
    /\ Seconds(now % (Day \div 2)) < MaxMinutes * 60
    /\ now' = now + (60 \div SecondsPerTick)
    /\ UNCHANGED <<state, analytics, achievements, daily_stats, alarm_state, out, hist, mem,
                   elsewhere>>

\* the bar is not polled for the rest of the half day
HalfDay ==
    /\ now < MaxDays * Day
    /\ now' = (now - (now % (Day \div 2))) + (Day \div 2)
    /\ UNCHANGED <<state, analytics, achievements, daily_stats, alarm_state, out, hist, mem,
                   elsewhere>>

\* main(): one poll.  `failing` and `response` are what the network does.
PrayerMain(failing, response) ==
    LET fetched == FetchPrayerTimes(prayer.cache, failing, response, now)
        \* the except branch of main: the cache once more
        fallback == LoadCachedPrayers(prayer.cache, now)
        prayers == IF fetched.raised THEN fallback ELSE fetched.prayers
        shown == prayers # NoPrayers
        name == NextPrayer(prayers, now)
        remaining == TimeRemaining(prayers, now)
        minutes == MinutesRemaining(remaining)
        sends == shown /\ SendsReminder(prayer.notified, name, minutes, now)
    IN  /\ prayer' = [ cache |-> fetched.cache,
                       notified |-> IF shown
                                    THEN Notified(prayer.notified, name, minutes, now)
                                    ELSE prayer.notified,
                       flag |-> StartupFlag(prayer.flag, now),
                       sent |-> IF shown
                                THEN Sent(prayer.sent, now + remaining, sends,
                                          ThresholdToNotify(minutes))
                                ELSE prayer.sent ]
        /\ out' = [ op |-> "prayer",
                    attempts |-> fetched.attempts,
                    slept |-> fetched.slept,
                    raised |-> fetched.raised,
                    status |-> IF ~shown
                               THEN (IF fetched.raised THEN "error" ELSE "unavailable")
                               ELSE IF fetched.raised THEN "cached" ELSE "times",
                    class |-> IF shown THEN CssClass(remaining) ELSE "custom-prayertimes-error",
                    next |-> IF shown THEN name ELSE "",
                    minutes |-> IF shown THEN minutes ELSE NoThreshold,
                    threshold |-> IF shown THEN ThresholdToNotify(minutes) ELSE NoThreshold,
                    reminder |-> sends,
                    startup |-> StartupFlag(prayer.flag, now) # prayer.flag ]
        /\ UNCHANGED <<now, state, analytics, achievements, daily_stats, alarm_state, hist,
                       mem, disk, pomodoro>>

\* polls with the network up or down, half a day apart or at the same time
FetchNext ==
    \/ HalfDay
    \/ \E failing \in 0..FetchAttempts, response \in {PrayerTimes, NoPrayers} :
          PrayerMain(failing, response)

FetchSpec == PrayerInit /\ [][FetchNext]_vars

\* polls while a prayer approaches, the API answering at once or not at all
ReminderNext ==
    \/ Minute
    \/ \E failing \in {0, FetchAttempts} : PrayerMain(failing, PrayerTimes)

ReminderSpec == PrayerInit /\ [][ReminderNext]_vars

-----------------------------------------------------------------------------
\* the commands given to waybar-pomodoro.py in a run (the polls are not counted)
MaxCommands == 3

(* waybar-pomodoro.py.  pomodoro.state is waybar-pomodoro.json, pomodoro.config
   the [General] section of pomodoro.conf, pomodoro.stats the streak and total
   of waybar-pomodoro-stats.json, and pomodoro.workspace tells whether the
   special workspace "focus" of the window manager is toggled on;
   pomodoro.commands counts the commands given.  Every
   command loads the state file, works on its copy and saves it; the poll
   (no argument) prints get_output of what it loaded.  Durations are in
   ticks. *)

\* the settings read by get_setting
PomodoroConfigs ==
    [ work_minutes : {1}, short_break_minutes : {1}, long_break_minutes : {2},
      pomodoros_until_long_break : {2},
      auto_start_breaks : BOOLEAN, auto_start_work : BOOLEAN, focus_mode : BOOLEAN ]

\* hyprctl clients -j: the addresses of the open windows
OpenApps == <<"0x1">>

\* datetime.now().strftime("%Y-%m-%d"), as a day number
Today(t) == LocalTime(t) \div Day

NoStats == [ total_completed |-> 0, current |-> 0, longest |-> 0, last_date |-> NoDate ]

\* get_remaining_time
GetRemainingTime(st, t) ==
    LET elapsed == IF st.paused
                   THEN st.pause_time - st.start_time - st.elapsed_pause_time
                   ELSE t - st.start_time - st.elapsed_pause_time
    IN  IF ~st.active THEN 0
        ELSE IF st.duration - elapsed < 0 THEN 0 ELSE st.duration - elapsed

\* (variant) the day check of get_output never resetting the count
RolledOver_NoReset(st, t) ==
    IF st.last_completed_date # Today(t)
    THEN [st EXCEPT !.last_completed_date = Today(t)]
    ELSE st

\* the day check at the top of get_output
RolledOver(st, t) ==
    IF st.last_completed_date # Today(t)
    THEN [st EXCEPT !.completed_today = 0, !.last_completed_date = Today(t)]
    ELSE st

\* the completion test of get_output, made on an active state
PhaseOver(st, t) == st.active /\ GetRemainingTime(st, t) <= 0 /\ ~st.paused

\* the break chosen after `completed` pomodoros
BreakMode(completed, config) ==
    IF completed % config.pomodoros_until_long_break = 0 THEN "long_break" ELSE "short_break"

BreakDuration(mode, config) ==
    IF mode = "long_break" THEN PhaseDuration(config.long_break_minutes)
    ELSE PhaseDuration(config.short_break_minutes)

\* the phase starts now: start_time, elapsed_pause_time, paused
Running(st, t) ==
    [st EXCEPT !.start_time = t, !.elapsed_pause_time = 0, !.paused = FALSE]

\* update_stats(state, completed=True) for a work phase
UpdateStats(stats, t) ==
    LET current == IF stats.last_date = Today(t) - 1 THEN stats.current + 1
                   ELSE IF stats.last_date # Today(t) THEN 1
                   ELSE stats.current
    IN  [ total_completed |-> stats.total_completed + 1,
          current |-> current,
          longest |-> IF current > stats.longest THEN current ELSE stats.longest,
          last_date |-> Today(t) ]

\* toggle_focus_mode(enable) called by a command that holds its own copy of
\* the state: it loads the file, sets the flag there, toggles the special
\* workspace and saves the file
ToggleFocusMode(file, enable) ==
    [file EXCEPT !.focus_mode = enable,
                 !.focus_apps = IF enable THEN OpenApps ELSE @]

\* what a command leaves: the copy it saves last, the workspace, its notes.
\* `nested` lists the values toggle_focus_mode was called with on the way;
\* each call saved the file, and the command's own save came after them.
Left(saved, nested, notes) ==
    [ state |-> saved, nested |-> nested, notes |-> notes ]

\* the workspace after the toggles of the nested calls
Toggles(workspace, nested) ==
    IF Len(nested) % 2 = 1 THEN ~workspace ELSE workspace

\* get_output(state) when the phase is over: the transition
Transition(st, config, t) ==
    IF st.mode = "work"
    THEN LET counted == [st EXCEPT !.completed_pomodoros = @ + 1, !.completed_today = @ + 1]
             mode == BreakMode(counted.completed_pomodoros, config)
             next == [counted EXCEPT !.mode = mode, !.duration = BreakDuration(mode, config)]
         IN  Left(IF config.auto_start_breaks THEN Running(next, t)
                                              ELSE [next EXCEPT !.active = FALSE],
                  IF st.focus_mode THEN <<FALSE>> ELSE <<>>,
                  <<"sound:work_complete", "note:pomodoro_complete">>)
    ELSE LET next == [st EXCEPT !.mode = "work",
                                !.duration = PhaseDuration(config.work_minutes)]
         IN  Left(IF config.auto_start_work THEN Running(next, t)
                                            ELSE [next EXCEPT !.active = FALSE],
                  IF config.auto_start_work /\ config.focus_mode /\ ~st.focus_mode
                  THEN <<TRUE>> ELSE <<>>,
                  <<"sound:break_complete", "note:break_complete">>)

\* get_output(state): what the poll leaves
GetOutput(st, config, t) ==
    LET rolled == RolledOver(st, t)
    IN  IF PhaseOver(rolled, t) THEN Transition(rolled, config, t)
        ELSE Left(rolled, <<>>, <<>>)

\* toggle_pomodoro
TogglePomodoro(st, config, t) ==
    IF st.active
    THEN Left([st EXCEPT !.active = FALSE],
              IF st.focus_mode THEN <<FALSE>> ELSE <<>>,
              <<"sound:start", "note:stopped">>)
    ELSE Left([Running(st, t) EXCEPT !.active = TRUE, !.mode = "work",
                                     !.duration = PhaseDuration(config.work_minutes)],
              IF config.focus_mode THEN <<TRUE>> ELSE <<>>,
              <<"sound:start", "note:started">>)

\* pause_resume_pomodoro
PauseResume(st, t) ==
    IF ~st.active THEN Left(st, <<>>, <<>>)
    ELSE IF st.paused
    THEN Left([st EXCEPT !.elapsed_pause_time = @ + (t - st.pause_time), !.paused = FALSE],
              <<>>, <<"note:resumed">>)
    ELSE Left([st EXCEPT !.paused = TRUE, !.pause_time = t], <<>>, <<"note:paused">>)

\* end_pomodoro
EndPomodoro(st) ==
    IF st.active
    THEN Left([st EXCEPT !.active = FALSE],
              IF st.focus_mode THEN <<FALSE>> ELSE <<>>, <<"note:ended">>)
    ELSE Left(st, <<>>, <<>>)

\* start_break
StartBreak(st, config, t) ==
    LET mode == BreakMode(st.completed_pomodoros, config)
    IN  Left([st EXCEPT !.active = TRUE, !.paused = FALSE, !.mode = mode,
                        !.duration = BreakDuration(mode, config),
                        !.start_time = t, !.elapsed_pause_time = 0],
             IF st.focus_mode THEN <<FALSE>> ELSE <<>>,
             <<"sound:start", "note:break_started">>)

\* start_work
StartWork(st, config, t) ==
    Left([Running(st, t) EXCEPT !.active = TRUE, !.mode = "work",
                                !.duration = PhaseDuration(config.work_minutes)],
         IF config.focus_mode /\ ~st.focus_mode THEN <<TRUE>> ELSE <<>>,
         <<"sound:start", "note:work_started">>)

PomodoroCommands == {"toggle", "pause", "end", "start-break", "start-work"}

Command(cmd, st, config, t) ==
    CASE cmd = "toggle" -> TogglePomodoro(st, config, t)
      [] cmd = "pause" -> PauseResume(st, t)
      [] cmd = "end" -> EndPomodoro(st)
      [] cmd = "start-break" -> StartBreak(st, config, t)
      [] cmd = "start-work" -> StartWork(st, config, t)

PomodoroInit ==
    /\ now = 0
    /\ state = IdleState
    /\ analytics = NoAnalytics
    /\ achievements = NoAchievements
    /\ daily_stats = NoDailyStats
    /\ alarm_state = NoAlarms
    /\ out = [ op |-> "init" ]
    /\ hist = NoHist
    /\ mem = <<>>
    /\ disk = NoFile
    /\ prayer = NoFile
    /\ \E config \in PomodoroConfigs :
          pomodoro = [ state |-> PomodoroDefaults(config.work_minutes), config |-> config,
                       stats |-> NoStats, workspace |-> FALSE, commands |-> 0 ]

\* the invocation and the values it called toggle_focus_mode with
PomodoroDid(op, r) == [ op |-> op, nested |-> r.nested ]

\* time passes: a minute in the first MaxTime ticks of a day, or a day
PomodoroWait(dt) ==
    /\ \/ dt = PhaseDuration(1) /\ (now % Day) < MaxTime
       \/ dt = Day /\ now + Day <= MaxDays * Day + MaxTime
    /\ now' = now + dt
    /\ UNCHANGED <<state, analytics, achievements, daily_stats, alarm_state, out, hist, mem,
                   elsewhere>>

\* waybar-pomodoro.py without argument: the poll of the bar
PomodoroPoll ==
    LET r == GetOutput(pomodoro.state, pomodoro.config, now)
        counts == PhaseOver(RolledOver(pomodoro.state, now), now) /\ pomodoro.state.mode = "work"
    IN  /\ pomodoro' = [pomodoro EXCEPT
                           !.state = r.state,
                           !.stats = IF counts THEN UpdateStats(@, now) ELSE @,
                           !.workspace = Toggles(@, r.nested)]
        /\ out' = PomodoroDid("poll", r)
        /\ UNCHANGED <<now, state, analytics, achievements, daily_stats, alarm_state, hist,
                       mem, disk, prayer>>

\* waybar-pomodoro.py toggle | pause | end | start-break | start-work
PomodoroCommand(cmd) ==
    LET r == Command(cmd, pomodoro.state, pomodoro.config, now)
    IN  /\ pomodoro.commands < MaxCommands
        /\ pomodoro' = [pomodoro EXCEPT !.state = r.state,
                                        !.workspace = Toggles(@, r.nested),
                                        !.commands = @ + 1]
        /\ out' = PomodoroDid(cmd, r)
        /\ UNCHANGED <<now, state, analytics, achievements, daily_stats, alarm_state, hist,
                       mem, disk, prayer>>

\* waybar-pomodoro.py focus: toggle_focus_mode() on the file itself
PomodoroFocus ==
    /\ pomodoro.commands < MaxCommands
    /\ pomodoro' = [pomodoro EXCEPT
                       !.state = ToggleFocusMode(@, ~pomodoro.state.focus_mode),
                       !.workspace = ~@,
                       !.commands = @ + 1]
    /\ out' = [ op |-> "focus", nested |-> <<>> ]
    /\ UNCHANGED <<now, state, analytics, achievements, daily_stats, alarm_state, hist,
                   mem, disk, prayer>>

PomodoroNext ==
    \/ \E dt \in {PhaseDuration(1), Day} : PomodoroWait(dt)
    \/ PomodoroPoll
    \/ \E cmd \in PomodoroCommands : PomodoroCommand(cmd)
    \/ PomodoroFocus

PomodoroSpec == PomodoroInit /\ [][PomodoroNext]_vars

-----------------------------------------------------------------------------
(* Notions the properties below are stated with *)

IdleClasses == {"timer-idle", "timer-alarm-pending"}

\* the timer is running, unpaused, and its deadline has passed
Due == state.mode = "timer" /\ ~state.paused /\ Elapsed >= state.duration

HasRecord(an, sid) == \E i \in 1..Len(AllSessions(an)) : AllSessions(an)[i].id = sid

RecordOf(an, sid) ==
    AllSessions(an)[CHOOSE i \in 1..Len(AllSessions(an)) : AllSessions(an)[i].id = sid]

\* the timer carries a session whose record is in the analytics file
OpenSession ==
    /\ state.mode # "idle"
    /\ state.session_id # NoSession
    /\ state.timer_type \in {"focus", "break"}
    /\ HasRecord(analytics, state.session_id)

AnalyticsFaults == {"analytics_read", "analytics_write"}

-----------------------------------------------------------------------------
(* C1 *)

\* C1 as claimed: after the deadline of a running, unpaused timer has passed,
\* polls produce exactly one completion event with ONE completion notification,
\* one stop(interrupted = false) and at most one point award; the first poll
\* resets the state to idle and later polls return idle status and fire nothing.
C1_AsClaimed ==
    /\ hist.completions <= 1
    /\ hist.complete_notes = hist.completions
    /\ hist.awards <= hist.completions
    /\ hist.completions = 1 => state.mode = "idle"
    /\ out.op = "status" => ~Due

\* C1 as amended: the same, except that the one completion event sends two
\* completion notifications ("Timer Complete!" by get_status and "<name>
\* Complete!" by the stop_timer(interrupted = False) it calls), each exactly
\* once, with one completion sound.
C1_CompletionOnce ==
    /\ hist.completions <= 1
    /\ hist.complete_sounds = hist.completions
    /\ hist.complete_notes = 2 * hist.completions
    /\ hist.awards <= hist.completions
    /\ hist.completions = 1 => state.mode = "idle"
    /\ out.op = "status" => ~Due
    /\ (out.op = "status" /\ out.stops # <<>>) =>
          /\ out.stops = <<FALSE>>
          /\ Count(out.notes, "sound:complete") = 1
          /\ Count(out.notes, "note:timer_complete") = 1
          /\ Count(out.notes, "note:complete") = 1
          /\ out.ret \in IdleClasses
    /\ (out.op = "status" /\ out.pre.mode = "idle") =>
          /\ out.stops = <<>>
          /\ out.awards = 0
          /\ Count(out.notes, "sound:complete") = 0
          /\ Count(out.notes, "note:timer_complete") = 0
          /\ Count(out.notes, "note:complete") = 0
          /\ out.ret \in IdleClasses

\* a poll that found the state idle after the completion had fired
C1_Witness ==
    /\ hist.completions = 1
    /\ out.op = "status"
    /\ out.pre.mode = "idle"
    /\ now > 1

-----------------------------------------------------------------------------
(* C2 *)

\* C2: for a timer or a stopwatch, the elapsed time while paused and just after
\* the resume equals the elapsed time just before the pause, however long the
\* pause lasted and however many pauses came before.
C2_PauseResumeLossFree ==
    (state.mode # "idle" /\ (state.paused \/ (out.op = "toggle" /\ out.pre.paused)))
        => Elapsed = hist.pause_mark

\* a resume after pauses that lasted two ticks in all, with time elapsed before
C2_Witness ==
    /\ out.op = "toggle"
    /\ out.pre.paused
    /\ ~state.paused
    /\ state.total_pause_time = 2
    /\ Elapsed = 1

-----------------------------------------------------------------------------
(* C3 *)

\* C3: right after start(duration, name, type) with duration > 0, from any prior
\* state and whether or not the session record could be written, mode = timer,
\* paused = false, pause_start = 0, total_pause_time = 0 and remaining = duration.
C3_StartResets ==
    out.op = "start" =>
        /\ out.arg.duration > 0
        /\ state.mode = "timer"
        /\ state.paused = FALSE
        /\ state.pause_start = 0
        /\ state.total_pause_time = 0
        /\ state.duration = out.arg.duration
        /\ state.timer_type = out.arg.type
        /\ state.start_time = now
        /\ Remaining(state, now) = out.arg.duration
        /\ (state.session_id # NoSession) <=> (out.arg.type \in {"focus", "break"})

\* a start that replaced a paused timer
C3_Witness ==
    /\ out.op = "start"
    /\ out.pre.mode = "timer"
    /\ out.pre.paused
    /\ now > 1

-----------------------------------------------------------------------------
(* C4 *)

\* the focus scenario: a focus timer, never paused, polled exactly when its
\* duration has elapsed
C4_Scenario ==
    /\ state.mode = "timer"
    /\ state.timer_type = "focus"
    /\ state.session_id # NoSession
    /\ ~state.paused
    /\ state.total_pause_time = 0
    /\ now = state.start_time + state.duration

\* C4 as claimed: in the focus scenario the poll fires completion once, returns
\* idle status, leaves the session's record completed and not interrupted, and
\* increases the achievement points by exactly 10 (stated for polls without a
\* storage fault and a stored record).
C4_AsClaimed ==
    [][ (C4_Scenario /\ HasRecord(analytics, state.session_id)
            /\ out'.op = "status" /\ out'.fault = "none") =>
          /\ out'.stops = <<FALSE>>
          /\ out'.ret \in IdleClasses
          /\ state'.mode = "idle"
          /\ RecordOf(analytics', state.session_id).completed
          /\ ~RecordOf(analytics', state.session_id).interrupted
          /\ achievements'.points = achievements.points + FocusBonus ]_vars

\* C4 as amended: in the focus scenario the poll fires completion once and
\* returns idle status; the record is left completed and not interrupted when
\* it is stored and the analytics file is read and written; the points grow by
\* exactly 10 when the achievements file exists (the timer never creates it)
\* and the record and that file are read without a fault, and do not change
\* otherwise.
C4_FocusScenario ==
    [][ (C4_Scenario /\ out'.op = "status") =>
          /\ out'.stops = <<FALSE>>
          /\ Count(out'.notes, "sound:complete") = 1
          /\ out'.ret \in IdleClasses
          /\ state'.mode = "idle"
          /\ (HasRecord(analytics, state.session_id) /\ out'.fault \notin AnalyticsFaults) =>
                /\ RecordOf(analytics', state.session_id).completed
                /\ ~RecordOf(analytics', state.session_id).interrupted
          /\ achievements'.points = achievements.points +
                (IF /\ achievements.exists
                    /\ HasRecord(analytics, state.session_id)
                    /\ out'.fault \notin {"analytics_read", "achievements"}
                 THEN FocusBonus ELSE 0) ]_vars

\* the poll of the scenario has run: the record is completed, its actual
\* duration is its planned one, and the 10 points are there
C4_Witness ==
    /\ out.op = "status"
    /\ out.stops = <<FALSE>>
    /\ out.fault = "none"
    /\ achievements.exists
    /\ achievements.points = FocusBonus
    /\ \E i \in 1..Len(analytics.focus_sessions) :
          LET r == analytics.focus_sessions[i]
          IN  /\ r.completed
              /\ ~r.interrupted
              /\ r.end_time = now
              /\ r.planned_duration = PlannedDuration(now - r.start_time)
              /\ r.actual_duration = ActualDuration(now - r.start_time)

-----------------------------------------------------------------------------
(* C5 *)

\* C5: a status poll ends the timer (stop(interrupted = false), idle status)
\* exactly when, at the poll, mode = timer, paused = false and elapsed >=
\* duration; every other poll leaves the timer state as it was, so polling never
\* completes a paused timer and never ends a stopwatch.
C5_PollCompletesIffDue ==
    [][ out'.op = "status" =>
          /\ Due <=> out'.stops = <<FALSE>>
          /\ Due => (state'.mode = "idle" /\ out'.ret \in IdleClasses)
          /\ ~Due => (state' = state /\ out'.stops = <<>>)
          /\ state.paused => state' = state
          /\ state.mode = "stopwatch" => state' = state ]_vars

\* a paused timer polled after the wall clock passed its deadline is still there
C5_Witness ==
    /\ out.op = "status"
    /\ state.mode = "timer"
    /\ state.paused
    /\ now - state.start_time > state.duration
    /\ out.ret = "timer-paused"

-----------------------------------------------------------------------------
(* C6 *)

\* a poll completes a focus timer
C6_FocusCompletion ==
    /\ out'.op = "status"
    /\ Due
    /\ state.timer_type = "focus"
    /\ state.session_id # NoSession

\* the points change only when a poll completes a focus timer, and then by 10
C6_OnlyFocusCompletion ==
    /\ achievements' # achievements =>
          /\ C6_FocusCompletion
          /\ out'.stops = <<FALSE>>
          /\ RecordOf(analytics, state.session_id).type = "focus"
          /\ achievements'.points = achievements.points + FocusBonus
          /\ out'.awards = 1
    /\ out'.op \in {"stop", "toggle", "start", "stopwatch", "tick"} =>
          achievements' = achievements
    /\ (out'.op = "status" /\ state.timer_type # "focus") =>
          achievements' = achievements

\* C6 as claimed: the achievement points change only when a focus session
\* completes without interruption (never by stop(interrupted = true), by a
\* break or general timer or by a stopwatch), and a focus session completing
\* without interruption awards exactly 10 (stated for a stored record and a
\* completion without a storage fault).
C6_AsClaimed ==
    [][ /\ C6_OnlyFocusCompletion
        /\ (C6_FocusCompletion /\ HasRecord(analytics, state.session_id)
                /\ out'.fault = "none") =>
              achievements'.points = achievements.points + FocusBonus ]_vars

\* C6 as amended: the points change only when a focus session completes without
\* interruption, and then by exactly 10; such a completion awards the 10 when
\* the achievements file exists and the record and that file are read without
\* a fault, and nothing otherwise.
C6_PointsOnlyByFocusCompletion ==
    [][ /\ C6_OnlyFocusCompletion
        /\ C6_FocusCompletion =>
              achievements'.points = achievements.points +
                 (IF /\ achievements.exists
                     /\ HasRecord(analytics, state.session_id)
                     /\ out'.fault \notin {"analytics_read", "achievements"}
                  THEN FocusBonus ELSE 0) ]_vars

\* a focus session stopped by the user, its record marked interrupted, with the
\* achievements file present and no points in it
C6_Witness ==
    /\ out.op = "stop"
    /\ out.stops = <<TRUE>>
    /\ out.fault = "none"
    /\ achievements.exists
    /\ achievements.points = 0
    /\ \E i \in 1..Len(analytics.focus_sessions) :
          /\ analytics.focus_sessions[i].interrupted
          /\ analytics.focus_sessions[i].end_time = now

-----------------------------------------------------------------------------
(* C7 *)

\* stop_timer runs on a timer with an open session whose record is stored, and
\* the analytics file is read and written without a fault
C7_StopsOpenSession ==
    /\ OpenSession
    /\ out'.stops # <<>>
    /\ out'.fault \notin AnalyticsFaults

\* C7 as claimed: the record then has completed = not interrupted, interrupted =
\* interrupted, an end_time, and actual_duration = elapsed / 60 with elapsed the
\* pause-adjusted elapsed time at the stop (actual_duration is in tenths of a
\* minute, elapsed in ticks: 6 * tenths = seconds).
C7_AsClaimed ==
    [][ C7_StopsOpenSession =>
          LET r == RecordOf(analytics', state.session_id)
          IN  /\ r.completed = ~out'.stops[1]
              /\ r.interrupted = out'.stops[1]
              /\ r.end_time = now
              /\ 6 * r.actual_duration = Elapsed * SecondsPerTick ]_vars

\* C7 as amended: the same with actual_duration = elapsed / 60 rounded to one
\* decimal place, for a record that is stored and an analytics file that is
\* read and written without error.
C7_SessionRecordOnStop ==
    [][ C7_StopsOpenSession =>
          LET r == RecordOf(analytics', state.session_id)
          IN  /\ r.completed = ~out'.stops[1]
              /\ r.interrupted = out'.stops[1]
              /\ r.completed # r.interrupted
              /\ r.end_time = now
              /\ r.actual_duration = ActualDuration(Elapsed)
              /\ 2 * (6 * r.actual_duration - Elapsed * SecondsPerTick) <= 6
              /\ 2 * (Elapsed * SecondsPerTick - 6 * r.actual_duration) <= 6 ]_vars

\* a session stopped by the user two ticks after its start, one of them paused:
\* the record holds the one tick that elapsed
C7_Witness ==
    /\ out.op = "stop"
    /\ out.stops = <<TRUE>>
    /\ \E i \in 1..Len(AllSessions(analytics)) :
          LET r == AllSessions(analytics)[i]
          IN  /\ r.interrupted
              /\ ~r.completed
              /\ r.end_time = now
              /\ now - r.start_time = 2
              /\ r.actual_duration = ActualDuration(1)

-----------------------------------------------------------------------------
(* C8 *)

\* C8: whenever stop_timer runs on a non-idle state (timer or stopwatch, paused
\* or not, with or without a session, interrupted or completed, with or without
\* a fault of the analytics or achievements file) it leaves the idle defaults.
C8_StopLeavesIdle ==
    /\ (out.op = "stop" /\ out.pre.mode # "idle") => out.stops = <<TRUE>>
    /\ out.stops # <<>> =>
          /\ state.mode = "idle"
          /\ state.start_time = 0
          /\ state.duration = 0
          /\ state.paused = FALSE
          /\ state.pause_start = 0
          /\ state.total_pause_time = 0
          /\ state.timer_type = "general"
          /\ state.session_id = NoSession

\* a paused timer was stopped while the analytics file could not be read
C8_Witness ==
    /\ out.op = "stop"
    /\ out.pre.mode = "timer"
    /\ out.pre.paused
    /\ out.fault = "analytics_read"
    /\ state.mode = "idle"

-----------------------------------------------------------------------------
(* C9 *)

\* C9: with mode = idle, toggle_pause and stop_timer change nothing: not the
\* timer state, not a session record or the achievement files, and they send no
\* notification.
C9_IdleNoOps ==
    [][ (state.mode = "idle" /\ out'.op \in {"toggle", "stop"}) =>
          /\ state' = state
          /\ analytics' = analytics
          /\ achievements' = achievements
          /\ daily_stats' = daily_stats
          /\ alarm_state' = alarm_state
          /\ out'.notes = <<>>
          /\ out'.stops = <<>> ]_vars

\* toggle_pause ran in the idle state, with a session record in the log
C9_Witness ==
    /\ out.op = "toggle"
    /\ out.pre.mode = "idle"
    /\ state.mode = "idle"
    /\ Len(AllSessions(analytics)) > 0

-----------------------------------------------------------------------------
(* C10 *)

\* C10: in every reachable state the elapsed time is >= 0, and for a countdown
\* remaining = max(0, duration - elapsed), so that 0 <= remaining <= duration.
C10_ElapsedNonNegative ==
    /\ Elapsed >= 0
    /\ state.mode = "timer" =>
          /\ Remaining(state, now) >= 0
          /\ Remaining(state, now) <= state.duration
          /\ Elapsed <= state.duration => Remaining(state, now) = state.duration - Elapsed
          /\ Elapsed >= state.duration => Remaining(state, now) = 0

\* a resumed countdown with a pause behind it, time elapsed and time remaining
C10_Witness ==
    /\ state.mode = "timer"
    /\ ~state.paused
    /\ state.total_pause_time > 0
    /\ Elapsed > 0
    /\ Remaining(state, now) > 0

-----------------------------------------------------------------------------
(* C11 *)

-----------------------------------------------------------------------------
(* C12 *)

\* what a check at the current time is to leave of alarm a
C12_Expected(a) ==
    IF a.enabled /\ a.timestamp <= now
    THEN [a EXCEPT !.time = @ + Day, !.timestamp = @ + Day]
    ELSE a

-----------------------------------------------------------------------------
(* C13 *)

-----------------------------------------------------------------------------
(* C14 *)

\* C14: the alarm list is sorted ascending by timestamp in every reachable
\* state, after any sequence of add, remove, toggle and firing polls.
C14_AlarmsSorted ==
    \A i \in 1..(Len(alarm_state.alarms) - 1) :
        alarm_state.alarms[i].timestamp <= alarm_state.alarms[i + 1].timestamp

\* a poll fired the first alarm of two, which now stands behind the other
C14_Witness ==
    /\ out.op = "status"
    /\ Count(out.notes, "note:alarm") = 1
    /\ Len(alarm_state.alarms) = 2
    /\ alarm_state.alarms[1].timestamp > now
    /\ alarm_state.alarms[2].timestamp - Day <= now
    /\ alarm_state.alarms[1].timestamp < alarm_state.alarms[2].timestamp
    /\ alarm_state.alarms[1].enabled /\ alarm_state.alarms[2].enabled

-----------------------------------------------------------------------------
(* C15 *)

\* next_alarm is the enabled alarm with the smallest timestamp > now, none if
\* there is no such alarm
C15_NextIsEarliest ==
    LET alarms == alarm_state.alarms
        future == { i \in 1..Len(alarms) : alarms[i].enabled /\ alarms[i].timestamp > now }
    IN  IF future = {} THEN alarm_state.next_alarm = <<>>
        ELSE /\ Len(alarm_state.next_alarm) = 1
             /\ \E i \in future :
                   /\ alarm_state.next_alarm[1] = alarms[i]
                   /\ \A j \in future : alarms[i].timestamp <= alarms[j].timestamp

\* C15: next_alarm is the earliest enabled alarm with timestamp > now right
\* after every alarm mutation (add, remove, toggle, firing poll) and whenever a
\* status poll renders the idle status, whatever time passed before the poll.
C15_NextAlarm ==
    (\/ out.op \in {"toggle", "delete", "status"}
     \/ out.op = "add" /\ out.ret = "true") => C15_NextIsEarliest

\* a poll that fired nothing, a day after the alarms were set: the first alarm
\* is disabled and the second one is next
C15_Witness ==
    /\ out.op = "status"
    /\ out.notes = <<>>
    /\ out.ret = "timer-alarm-pending"
    /\ now >= Day
    /\ Len(alarm_state.alarms) = 2
    /\ ~alarm_state.alarms[1].enabled
    /\ alarm_state.next_alarm = <<alarm_state.alarms[2]>>

-----------------------------------------------------------------------------
(* C16 *)

\* the input is two integers, an hour in 0..23 and a minute in 0..59
C16_WellFormed(input) ==
    /\ Len(input) = 2
    /\ \A k \in 1..2 : input[k].int
    /\ input[1].val >= 0 /\ input[1].val <= 23
    /\ input[2].val >= 0 /\ input[2].val <= 59

\* C16: add with input that is not two integers separated by ':', or with an
\* hour outside 0..23 or a minute outside 0..59, returns false with an error
\* notification and leaves the alarm list and next_alarm unchanged; well-formed
\* input is not rejected.
C16_AddRejectsBadInput ==
    [][ out'.op = "add" =>
          IF C16_WellFormed(out'.arg)
          THEN out'.ret = "true" /\ out'.notes = <<"note:alarm_set">>
          ELSE /\ out'.ret = "false"
               /\ out'.notes = <<"note:alarm_error">>
               /\ alarm_state' = alarm_state ]_vars

\* 24:00 was typed with an alarm already set
C16_Witness ==
    /\ out.op = "add"
    /\ out.arg = <<Part(24), Part(0)>>
    /\ out.ret = "false"
    /\ Len(alarm_state.alarms) > 0
    /\ alarm_state.next_alarm # <<>>

-----------------------------------------------------------------------------
(* C17 *)

\* C17: after any sequence of point-awarding events (the timer's award for a
\* completed focus session; the productivity manager's add_points from goal
\* completion, habit completion and unlocks, with the nested unlock of
\* productivity_guru at level 10), achievements.json holds
\* level = points // 100 + 1.
C17_LevelInvariant ==
    achievements.exists =>
        /\ achievements.level = (achievements.points \div LevelStep) + 1
        /\ achievements.level * LevelStep > achievements.points
        /\ (achievements.level - 1) * LevelStep <= achievements.points

\* the manager has just written the points that took it to level 10 and, with
\* them, the 200 points of productivity_guru
C17_Witness ==
    /\ out.op = "pm"
    /\ achievements.exists
    /\ "productivity_guru" \in achievements.unlocked
    /\ achievements.points >= (GuruLevel - 1) * LevelStep
                                 + AchievementPoints["productivity_guru"]
    /\ achievements.level >= GuruLevel + 2

-----------------------------------------------------------------------------
(* C18 *)

\* invocation i of mem runs its method in this step
C18_Runs(i, op) ==
    /\ i \in 1..Len(mem)
    /\ mem[i].op = op
    /\ out'.op = op
    /\ mem' = SubSeq(mem, 1, i - 1) \o SubSeq(mem, i + 1, Len(mem))

\* C18: nothing locks timer-manager.json: an invocation may load it while
\* another is in flight, and a method saves what follows from the copy its
\* invocation loaded, whatever other invocations have written since, so that
\* their update is overwritten (a pause loaded before a completing poll or a
\* stop brings the ended timer back).
C18_LostUpdate ==
    [][ \A i \in 1..Len(mem) :
          LET loaded == mem[i].state
              due == /\ loaded.mode = "timer"
                     /\ ~loaded.paused
                     /\ now - loaded.start_time - loaded.total_pause_time >= loaded.duration
          IN  /\ (C18_Runs(i, "toggle") /\ loaded.mode # "idle") =>
                    /\ state'.mode = loaded.mode
                    /\ state'.start_time = loaded.start_time
                    /\ state'.duration = loaded.duration
                    /\ state'.paused = ~loaded.paused
              /\ (C18_Runs(i, "toggle") /\ loaded.mode = "idle") => state' = state
              /\ (C18_Runs(i, "stop") /\ loaded.mode # "idle") => state'.mode = "idle"
              /\ (C18_Runs(i, "stop") /\ loaded.mode = "idle") => state' = state
              /\ (C18_Runs(i, "status") /\ due) => state'.mode = "idle"
              /\ (C18_Runs(i, "status") /\ ~due) => state' = state
              /\ C18_Runs(i, "start") =>
                    state'.mode = "timer" /\ state'.start_time = now ]_vars

\* a pause command loaded the running timer, a poll then completed the timer
\* and saved the idle state, and the pause saved its copy over it: the timer is
\* back, paused, and the completion is lost
C18_Witness ==
    /\ out.op = "toggle"
    /\ out.arg.loaded.mode = "timer"
    /\ out.arg.file.mode = "idle"
    /\ hist.completions = 1
    /\ state.mode = "timer"
    /\ state.paused
    /\ state.start_time = out.arg.loaded.start_time

-----------------------------------------------------------------------------
(* C19 *)

\* the alarm manager in flight (there is at most one) acts in this step
C19_ManagerActs ==
    /\ Len(mem) = 1
    /\ mem[1].op \in {"toggle_alarm", "delete_alarm"}
    /\ out'.op = mem[1].op
    /\ mem' = <<>>

\* the list the manager loaded and showed, the line its user picked, and the
\* position the manager's loop finds for that line (the first line that reads
\* the same), counted from 1
C19_Shown == mem[1].alarm_state.alarms
C19_Picked == mem[1].arg
C19_Position ==
    CHOOSE k \in 1..Len(C19_Shown) :
        /\ Option(C19_Shown[k]) = Option(C19_Shown[C19_Picked])
        /\ \A j \in 1..(k - 1) : Option(C19_Shown[j]) # Option(C19_Shown[C19_Picked])

\* the stored list has changed since the manager loaded (an alarm was added,
\* or a poll fired and re-sorted) and holds another alarm than the picked one
\* at the manager's position
C19_Raced ==
    /\ alarm_state.alarms # C19_Shown
    /\ Len(alarm_state.alarms) >= C19_Position
    /\ alarm_state.alarms[C19_Position].time % Day # C19_Shown[C19_Picked].time % Day

-----------------------------------------------------------------------------
(* C20 *)

\* a record nothing has marked
C20_Open(r) == ~r.completed /\ ~r.interrupted /\ r.end_time = NoTime

\* the step leaves the i-th record of the list where and as it was
C20_Kept(list, after, i) == Len(after) >= i /\ after[i] = list[i]

\* the records of the list the timer state does not refer to and nothing has
\* marked: those of timers a later timer was started over
C20_Dangling(list) ==
    { i \in 1..Len(list) : list[i].id # state.session_id /\ C20_Open(list[i]) }

\* a focus or break timer is active and its record is open
C20_TimerWithOpenSession ==
    /\ state.mode = "timer"
    /\ state.timer_type \in {"focus", "break"}
    /\ state.session_id # NoSession
    /\ \E i \in 1..Len(AllSessions(analytics)) :
          /\ AllSessions(analytics)[i].id = state.session_id
          /\ C20_Open(AllSessions(analytics)[i])

\* C20: a timer started while a focus or break timer with an open record is
\* active takes the place of that timer (the state refers to the new timer,
\* started now, and no longer to the old session) and leaves the old record
\* as it was, neither completed nor interrupted; and no step whatever (start,
\* stop, pause, poll) changes a record that is open and that the state does
\* not refer to, so the old record stays that way for good.
C20_DanglingSession ==
    [][ /\ (C20_TimerWithOpenSession /\ out'.op = "start") =>
             /\ state'.mode = "timer"
             /\ state'.start_time = now
             /\ state'.session_id # state.session_id
             /\ \A i \in 1..Len(analytics.focus_sessions) :
                   analytics.focus_sessions[i].id = state.session_id =>
                      /\ C20_Kept(analytics.focus_sessions, analytics'.focus_sessions, i)
                      /\ C20_Open(analytics'.focus_sessions[i])
             /\ \A i \in 1..Len(analytics.break_sessions) :
                   analytics.break_sessions[i].id = state.session_id =>
                      /\ C20_Kept(analytics.break_sessions, analytics'.break_sessions, i)
                      /\ C20_Open(analytics'.break_sessions[i])
        /\ \A i \in C20_Dangling(analytics.focus_sessions) :
               C20_Kept(analytics.focus_sessions, analytics'.focus_sessions, i)
        /\ \A i \in C20_Dangling(analytics.break_sessions) :
               C20_Kept(analytics.break_sessions, analytics'.break_sessions, i) ]_vars

\* a focus timer was started over a running focus timer, then paused past its
\* deadline and resumed, and a poll completed it: the second record is marked
\* completed, the first is still open, and no timer is left
C20_Witness ==
    /\ out.op = "status"
    /\ out.stops = <<FALSE>>
    /\ state.mode = "idle"
    /\ Len(analytics.focus_sessions) = 2
    /\ C20_Open(analytics.focus_sessions[1])
    /\ analytics.focus_sessions[2].completed
    /\ analytics.focus_sessions[2].end_time - analytics.focus_sessions[2].start_time
          > MaxDuration

-----------------------------------------------------------------------------
(* C21 *)

\* a focus timer with a session record is due for completion
C21_FocusDue ==
    /\ Completes(state, now)
    /\ state.timer_type = "focus"
    /\ state.session_id # NoSession
    /\ FirstMatch(analytics.focus_sessions, state.session_id) # 0

\* the poll died with exactly one of the achievement state and the timer
\* state updated
C21_Between(done) == Written("achievements", done) # Written("state", done)

-----------------------------------------------------------------------------
(* C22 *)

\* the conditions in which a file is there and cannot be parsed
C22_Unparsable == {"not_json", "not_text"}

\* C22: a load of a state file holding a subset of the keys returns every
\* stored key with its stored value and every missing key with its default;
\* a load of an absent or unparsable file returns the defaults; and in none
\* of these cases does the load fail.
C22_ForwardCompatibleLoad ==
    (out.op = "load_state" /\ disk.cond \in {"object", "absent"} \cup C22_Unparsable) =>
        /\ out.raised = "-"
        /\ disk.cond = "object" =>
              /\ \A k \in DOMAIN disk.data : out.state[k] = disk.data[k]
              /\ \A k \in DOMAIN Defaults(disk.program) \ DOMAIN disk.data :
                    out.state[k] = Defaults(disk.program)[k]
        /\ disk.cond # "object" => out.state = Defaults(disk.program)

\* timer-manager.json holds bytes that are not UTF-8 text: load_state lets the
\* UnicodeDecodeError through and TimerManager() fails
C22_Witness ==
    /\ out.op = "load_state"
    /\ disk.program = "timer"
    /\ disk.cond = "not_text"
    /\ out.raised = "UnicodeDecodeError"

-----------------------------------------------------------------------------
(* C23 *)

\* the cache file holds prayer times, of whatever age
C23_CacheHasPrayers ==
    prayer.cache.cond = "object" /\ prayer.cache.prayers # NoPrayers

\* C23: a fetch is attempted at most three times with a pause of two seconds
\* after each failure but the last; when every attempt has failed the poll
\* prints the status built from the cache, marked as cached, whenever the
\* cache file holds prayer times, and the error status only when it holds
\* none; a poll always ends with a status.
C23_FetchFallback ==
    out.op = "prayer" =>
        /\ out.attempts <= FetchAttempts
        /\ out.slept = FetchBackoff * (IF out.raised THEN out.attempts - 1
                                       ELSE IF out.attempts = 0 THEN 0
                                       ELSE out.attempts - 1)
        /\ out.raised => out.attempts = FetchAttempts
        /\ out.status \in {"times", "cached", "error", "unavailable"}
        /\ (out.raised /\ C23_CacheHasPrayers) => out.status = "cached"
        /\ (out.raised /\ ~C23_CacheHasPrayers) => out.status = "error"

\* the cache is over twelve hours old and holds the prayer times, the three
\* attempts have failed, and the poll has printed the error status
C23_Witness ==
    /\ out.op = "prayer"
    /\ out.raised
    /\ out.attempts = FetchAttempts
    /\ prayer.cache.cond = "object"
    /\ prayer.cache.prayers = PrayerTimes
    /\ Seconds(now - prayer.cache.timestamp) >= CacheValidity
    /\ out.status = "error"

-----------------------------------------------------------------------------
(* C24 *)

\* the poll finds an active, unpaused phase with no time remaining
C24_Over ==
    /\ pomodoro.state.active
    /\ ~pomodoro.state.paused
    /\ GetRemainingTime(pomodoro.state, now) <= 0

\* the next phase as the auto-start setting asks
C24_NextPhase(auto) ==
    IF auto
    THEN /\ pomodoro'.state.active
         /\ ~pomodoro'.state.paused
         /\ pomodoro'.state.start_time = now
         /\ pomodoro'.state.elapsed_pause_time = 0
    ELSE ~pomodoro'.state.active

\* the mode after a work phase that made the count `completed`
C24_BreakAfter(completed) ==
    IF completed % pomodoro.config.pomodoros_until_long_break = 0
    THEN "long_break" ELSE "short_break"

\* the transition of a poll, completed_today being counted from `today`
C24_Transition(today) ==
    /\ (C24_Over /\ pomodoro.state.mode = "work") =>
          /\ pomodoro'.state.completed_pomodoros = pomodoro.state.completed_pomodoros + 1
          /\ pomodoro'.state.completed_today = today + 1
          /\ pomodoro'.state.mode = C24_BreakAfter(pomodoro'.state.completed_pomodoros)
          /\ C24_NextPhase(pomodoro.config.auto_start_breaks)
    /\ (C24_Over /\ pomodoro.state.mode # "work") =>
          /\ pomodoro'.state.mode = "work"
          /\ pomodoro'.state.completed_pomodoros = pomodoro.state.completed_pomodoros
          /\ pomodoro'.state.completed_today = today
          /\ C24_NextPhase(pomodoro.config.auto_start_work)
    /\ pomodoro.state.paused =>
          /\ pomodoro'.state.mode = pomodoro.state.mode
          /\ pomodoro'.state.active = pomodoro.state.active
          /\ pomodoro'.state.paused
          /\ pomodoro'.state.completed_pomodoros = pomodoro.state.completed_pomodoros
          /\ pomodoro'.state.completed_today = today

\* C24 as stated: a poll that finds an active, unpaused phase with no time
\* remaining adds one to completed_pomodoros and to the stored completed_today
\* and enters the long break on a multiple of pomodoros_until_long_break
\* (else the short one) when the phase is work, enters work and changes no
\* counter when the phase is a break, and runs the next phase from now with no
\* pause accounted when the matching auto-start setting is on (else leaves it
\* inactive); a late poll makes that one transition, a paused phase none.
C24_AsClaimed ==
    [][PomodoroPoll => C24_Transition(pomodoro.state.completed_today)]_vars

\* completed_today after the day check of the poll
C24_Today ==
    IF pomodoro.state.last_completed_date # Today(now) THEN 0
    ELSE pomodoro.state.completed_today

\* C24 (amended): the same transition, with completed_today counted from its
\* value after the day check of the poll: zero when the last completion date
\* stored is not today, the stored value otherwise.
C24_AutoTransition ==
    [][PomodoroPoll => C24_Transition(C24_Today)]_vars

\* a poll has just completed the second pomodoro, the first of its day, and
\* started the long break
C24_Witness ==
    /\ out.op = "poll"
    /\ pomodoro.state.active
    /\ pomodoro.state.mode = "long_break"
    /\ pomodoro.state.start_time = now
    /\ pomodoro.state.completed_pomodoros = 2
    /\ pomodoro.state.completed_today = 1
    /\ pomodoro.stats.total_completed = 2

-----------------------------------------------------------------------------
(* C28 *)

\* the operation just made has switched focus mode on the way
C28_Switched ==
    /\ out.op \in PomodoroCommands \cup {"poll"}
    /\ out.nested # <<>>

\* C28: after a pomodoro operation that switches focus mode as a side effect,
\* the focus_mode flag in the state file equals the value the operation set:
\* the caller's last save does not bring the earlier value back.
C28_FocusFlagPersisted ==
    C28_Switched => pomodoro.state.focus_mode = out.nested[Len(out.nested)]

\* a start with the focus_mode setting on has toggled the special workspace
\* and left the flag off in the state file
C28_Witness ==
    /\ out.op = "toggle"
    /\ out.nested = <<TRUE>>
    /\ pomodoro.state.active
    /\ pomodoro.workspace
    /\ ~pomodoro.state.focus_mode

-----------------------------------------------------------------------------
(* C29 *)

\* C29: the long break is entered only when completed_pomodoros is a positive
\* multiple of pomodoros_until_long_break; a break started by hand with no
\* pomodoro completed is a short one.
C29_LongBreakOnlyAfterPomodoros ==
    pomodoro.state.mode = "long_break" =>
        /\ pomodoro.state.completed_pomodoros > 0
        /\ pomodoro.state.completed_pomodoros % pomodoro.config.pomodoros_until_long_break = 0

\* start-break with no pomodoro completed has started the long break
C29_Witness ==
    /\ out.op = "start-break"
    /\ pomodoro.state.active
    /\ pomodoro.state.completed_pomodoros = 0
    /\ pomodoro.state.mode = "long_break"
    /\ pomodoro.state.duration = PhaseDuration(pomodoro.config.long_break_minutes)

-----------------------------------------------------------------------------
(* C25 *)

\* C25: a stopwatch never carries a session: whenever the mode is stopwatch
\* the session id is none and the timer type is general, and stopping a
\* stopwatch changes no session record, nor the achievements, nor the daily
\* statistics.
C25_StopwatchCarriesNoSession ==
    [][/\ state'.mode = "stopwatch" =>
             /\ state'.session_id = NoSession
             /\ state'.timer_type = "general"
       /\ (state.mode = "stopwatch" /\ state'.mode = "idle") =>
             UNCHANGED <<analytics, achievements, daily_stats>>]_vars

\* a stopwatch started over a focus timer runs with that timer's session id
\* and type, the session record being open
C25_Witness ==
    /\ out.op = "stopwatch"
    /\ out.pre.mode = "timer"
    /\ state.mode = "stopwatch"
    /\ state.timer_type = "focus"
    /\ state.session_id # NoSession
    /\ analytics.exists
    /\ \E i \in 1..Len(analytics.focus_sessions) :
          /\ analytics.focus_sessions[i].id = state.session_id
          /\ C20_Open(analytics.focus_sessions[i])

-----------------------------------------------------------------------------
(* C26 *)

\* C26: after every status poll every enabled alarm has its timestamp after
\* now, also an alarm that was more than a day overdue and an alarm that was
\* enabled again after its time had passed; so an alarm does not fire on two
\* polls in a row that are less than a day apart.
C26_EnabledAlarmsAhead ==
    out.op = "status" =>
        \A i \in 1..Len(alarm_state.alarms) :
            alarm_state.alarms[i].enabled => alarm_state.alarms[i].timestamp > now

\* a poll has fired an alarm that was more than a day overdue, and the alarm
\* is still enabled and due
C26_Witness ==
    /\ out.op = "status"
    /\ Count(out.notes, "note:alarm") = 1
    /\ Len(alarm_state.alarms) = 1
    /\ alarm_state.alarms[1].enabled
    /\ alarm_state.alarms[1].timestamp <= now
    /\ alarm_state.alarms[1].timestamp > now - Day
    /\ alarm_state.next_alarm = <<>>

-----------------------------------------------------------------------------
(* C27 *)

\* the step is a poll that completes the timer
C27_LazyCompletion ==
    /\ Completes(state, now)
    /\ state'.mode = "idle"
    /\ out'.op = "status"
    /\ out'.stops = <<FALSE>>

\* the records of the list the step has marked completed keep their actual
\* duration (tenths of a minute) within the planned one, rounded alike
C27_WithinPlanned(list, after) ==
    \A i \in 1..Len(list) :
        (Len(after) >= i /\ after[i].completed /\ ~list[i].completed) =>
            after[i].actual_duration <= RoundHalfEven(list[i].planned_duration * 10, 60)

\* the planned minutes of the session the timer refers to, rounded as
\* elapsed_minutes is
C27_PlannedMinutes == ElapsedMinutes(state.duration)

\* C27: when a poll completes a focus or break session, the actual duration
\* it records and the focus minutes it adds to the daily statistics do not
\* exceed the planned duration of the session (both sides rounded the same
\* way), however late the poll runs.
C27_NeverAbovePlanned ==
    [][C27_LazyCompletion =>
          /\ C27_WithinPlanned(analytics.focus_sessions, analytics'.focus_sessions)
          /\ C27_WithinPlanned(analytics.break_sessions, analytics'.break_sessions)
          /\ daily_stats'.focus_time - daily_stats.focus_time <= C27_PlannedMinutes]_vars

\* a poll two ticks after the deadline of a one-tick focus session has
\* completed it: the record holds the elapsed minute, and a minute was added
\* to the focus time of the day
C27_Witness ==
    /\ out.op = "status"
    /\ out.stops = <<FALSE>>
    /\ out.awards = 1
    /\ state.mode = "idle"
    /\ Len(analytics.focus_sessions) = 1
    /\ analytics.focus_sessions[1].completed
    /\ analytics.focus_sessions[1].planned_duration = PlannedDuration(1)
    /\ analytics.focus_sessions[1].end_time - analytics.focus_sessions[1].start_time = MaxTime
    /\ analytics.focus_sessions[1].actual_duration = ActualDuration(MaxTime)
    /\ analytics.focus_sessions[1].actual_duration * 6 > analytics.focus_sessions[1].planned_duration
    /\ daily_stats.focus_time = ElapsedMinutes(MaxTime)
    /\ daily_stats.focus_time > ElapsedMinutes(1)

-----------------------------------------------------------------------------
(* C30 *)

\* the smallest of the thresholds that is not below m; none above them all
C30_Smallest(m) ==
    LET enough == { NotificationThresholds[i] : i \in 1..Len(NotificationThresholds) }
                      \cap { th \in 0..ImminentMinutes : th >= m }
    IN  IF enough = {} THEN NoThreshold
        ELSE CHOOSE th \in enough : \A other \in enough : th <= other

\* C30: with m minutes remaining the threshold of a poll is the smallest of
\* 15, 5 and 0 that is not below m (none when m is above 15), and while one
\* prayer approaches at most one reminder is sent for each threshold.
C30_OneReminderPerThreshold ==
    (out.op = "prayer" /\ out.minutes # NoThreshold) =>
        /\ out.threshold = C30_Smallest(out.minutes)
        /\ \A i \in 1..Len(NotificationThresholds) :
              Count(prayer.sent.thresholds, NotificationThresholds[i]) <= 1

\* five minutes or less before the prayer a poll has sent a reminder under
\* the threshold 15, and it is not the first one sent under it for this prayer
C30_Witness ==
    /\ out.op = "prayer"
    /\ out.reminder
    /\ out.minutes <= 5
    /\ out.minutes >= 0
    /\ out.threshold = 15
    /\ prayer.notified.last_threshold = 15
    /\ Count(prayer.sent.thresholds, 15) >= 2
    /\ prayer.sent.due = now + out.minutes * (60 \div SecondsPerTick)

=============================================================================
